---- MODULE Spec2Model ----
(***************************************************************************)
(* A model of the bayesdesign package (src/src/bed): Grid, GridStack and   *)
(* ExperimentDesigner.                                                     *)
(*                                                                         *)
(*   SpecStack  GridStack scopes over a pool of grids (grid.py 280-310)    *)
(*   SpecGrid   Grid.subgrid as a generator over an input grid             *)
(*   Spec       ExperimentDesigner: calculateEIG / calculateMarginalEIG    *)
(***************************************************************************)
EXTENDS Integers, Sequences, FiniteSets, TLC

VARIABLES
    \* ---- GridStack state
    nax,            \* grid -> len(grid.axes)
    stack_offset,   \* grid -> grid._stack_offset
    stack_pad,      \* grid -> grid._stack_pad
    active,         \* the open `with GridStack(...)` blocks, innermost last
    lastOp,         \* what the last GridStack operation did
    \* ---- a Grid.subgrid(N) generator
    numpy0d,        \* what the numpy build does for nonzero() of a 0-d array
    sgrid,          \* the grid subgrid() is called on
    sN,             \* its argument N
    sI,             \* the loop variable i of the generator
    sYielded,       \* the (subgrid, mask) pairs yielded so far
    sStatus,        \* "running", "done" or the error the generator raised
    \* ---- an ExperimentDesigner
    design_subgrid, \* self.design_subgrid
    initialized,    \* self._initialized
    prior,          \* self.prior (<<>> before the first calculateEIG)
    H0,             \* self.H0
    EIG,            \* self.EIG, per design cell
    marginal,       \* self.marginal
    IG,             \* self.IG
    subgrid_shape,  \* self.subgrid_shape
    has_buffer,     \* whether the attribute self._buffer exists
    pc,             \* where the running call is: "idle", "loop", "body"
    cur,            \* the (s, mask) pair the loop is at
    lastResult,     \* the last call and how it ended
    good,           \* the derived state when calculateEIG last completed
    \* ---- a single call of a constructor or of a function
    args,           \* the arguments of the call
    ret             \* what the call returned or raised (NoRet before it)

stackVars == <<nax, stack_offset, stack_pad, active, lastOp>>

gridVars == <<numpy0d, sgrid, sN, sI, sYielded, sStatus>>

designVars == <<design_subgrid, initialized, prior, H0, EIG, marginal, IG,
                subgrid_shape, has_buffer, pc, cur, lastResult, good>>

callVars == <<args, ret>>

vars == <<stackVars, gridVars, designVars, callVars>>

----------------------------------------------------------------------------
(* Bounds *)

\* the grids of the pool
NGrids == 3
\* a grid has 0..MaxAxes axes (Grid() with no axes is what get_posterior
\* builds when no key names a design or a feature)
MaxAxes == 2
\* nesting depth of `with GridStack(...)` blocks
MaxDepth == 2
\* an axis has 1..MaxAxisLen values
MaxAxisLen == 3
\* subgrid(N) is called with N in 1..MaxChunk
MaxChunk == 4
\* the designs grid of a designer has at most MaxDesignCells cells
MaxDesignCells == 4
\* the parameters grid of a designer is Grid(a=<one value>, b=<NParams values>)
NParams == 2

Grids == 1..NGrids

Range(s) == {s[i] : i \in 1..Len(s)}

SeqsUpTo(S, n) == UNION {[1..k -> S] : k \in 1..n}

RECURSIVE SumSeq(_)
SumSeq(s) == IF s = <<>> THEN 0 ELSE Head(s) + SumSeq(Tail(s))

RECURSIVE ProdSeq(_)
ProdSeq(s) == IF s = <<>> THEN 1 ELSE Head(s) * ProdSeq(Tail(s))

Min(S) == CHOOSE x \in S : \A y \in S : x <= y

\* np.ceil(a / b) for integers a >= 0, b > 0
CeilDiv(a, b) == (a + b - 1) \div b

----------------------------------------------------------------------------
(* GridStack *)

\* Grid.__init__ lines 75-76
GridInitStack == [offset |-> [g \in Grids |-> 0], pad |-> [g \in Grids |-> 0]]

\* the loop of GridStack.__enter__, at member k (members taken last to first)
RECURSIVE EnterLoop(_, _, _, _, _)
EnterLoop(grids, k, st, pad, offset) ==
    IF k = 0
    THEN [ok |-> TRUE, offset |-> st.offset, pad |-> st.pad]
    ELSE LET grid == grids[k] IN
         IF ~(st.offset[grid] = 0 /\ st.pad[grid] = 0)
         THEN \* the assertion fails; what was assigned so far stays
              [ok |-> FALSE, offset |-> st.offset, pad |-> st.pad]
         ELSE LET ngrid  == nax[grid]
                  offset2 == offset - ngrid
              IN  EnterLoop(grids, k - 1,
                            [offset |-> [st.offset EXCEPT ![grid] = offset2],
                             pad    |-> [st.pad EXCEPT ![grid] = pad]],
                            pad + ngrid, offset2)

\* GridStack.__enter__
GridStackEnter(grids, st) ==
    EnterLoop(grids, Len(grids), st, 0, SumSeq([i \in 1..Len(grids) |-> nax[grids[i]]]))

GridStackExitKeepsPad(grids, st) ==
    [offset |-> [g \in Grids |-> IF g \in Range(grids) THEN 0 ELSE st.offset[g]],
     pad    |-> st.pad]

\* GridStack.__exit__
GridStackExit(grids, st) ==
    [offset |-> [g \in Grids |-> IF g \in Range(grids) THEN 0 ELSE st.offset[g]],
     pad    |-> [g \in Grids |-> IF g \in Range(grids) THEN 0 ELSE st.pad[g]]]

\* Grid.axis(name), for the axis at position idx of grid's names
GridAxis(grid, idx) == idx + stack_offset[grid]

\* the number of dimensions of the array Grid.__getattr__ returns
GridAttrNDim(grid) == nax[grid] + stack_pad[grid]

\* the stacks that get entered: GridStack(g), and GridStack(g, h) for any two
\* grids of the pool, the same grid twice included
Stacks == {<<g>> : g \in Grids} \cup {<<g, h>> : g, h \in Grids}

StackState == [offset |-> stack_offset, pad |-> stack_pad]

\* no grid, and no subgrid() generator
NoGrid == [sizes |-> <<>>, cons |-> {}, cnt |-> 0]

GridIdle ==
    /\ numpy0d = "legacy"
    /\ sgrid = NoGrid
    /\ sN = 1
    /\ sI = 0
    /\ sYielded = <<>>
    /\ sStatus = "idle"

\* an array cell that holds NaN; a tensor attribute that is not set; no
\* chunk; no call yet; no derived state
NaN == [prior |-> <<>>, design |-> <<>>]
NoTensor == [prior |-> <<>>, chunk |-> 0 - 1]
NoChunk == [i |-> 0 - 1, shape |-> <<>>, rows |-> <<>>, mask |-> {}]
NoResult == [op |-> "none", outcome |-> "none"]
NoSnapshot == [valid |-> FALSE, prior |-> <<>>, H0 |-> <<>>, EIG |-> <<>>,
               marginal |-> NoTensor, IG |-> NoTensor, initialized |-> FALSE]

\* no call
NoArgs == [op |-> "none"]
NoRet == [err |-> "none"]

CallIdle ==
    /\ args = NoArgs
    /\ ret = NoRet

\* no designer
DesignIdle ==
    /\ design_subgrid = 0
    /\ initialized = FALSE
    /\ prior = <<>>
    /\ H0 = <<>>
    /\ EIG = <<>>
    /\ marginal = NoTensor
    /\ IG = NoTensor
    /\ subgrid_shape = <<>>
    /\ has_buffer = FALSE
    /\ pc = "none"
    /\ cur = NoChunk
    /\ lastResult = NoResult
    /\ good = NoSnapshot

InitStack ==
    /\ nax \in [Grids -> 0..MaxAxes]
    \* the grids of the pool are interchangeable: take them by axis count
    /\ \A g, h \in Grids : g < h => nax[g] <= nax[h]
    /\ stack_offset = GridInitStack.offset
    /\ stack_pad = GridInitStack.pad
    /\ active = <<>>
    /\ lastOp = "none"
    /\ GridIdle
    /\ DesignIdle
    /\ CallIdle

\* `with GridStack(*grids):` is reached and __enter__ returns
Enter(grids) ==
    /\ Len(active) < MaxDepth
    /\ LET r == GridStackEnter(grids, StackState) IN
       /\ r.ok
       /\ stack_offset' = r.offset
       /\ stack_pad' = r.pad
       /\ active' = Append(active, grids)
       /\ lastOp' = "entered"
    /\ UNCHANGED <<callVars, nax, gridVars, designVars>>

\* `with GridStack(*grids):` is reached and __enter__ raises AssertionError:
\* the block is not entered and __exit__ is not called
EnterFails(grids) ==
    /\ Len(active) < MaxDepth
    /\ LET r == GridStackEnter(grids, StackState) IN
       /\ ~r.ok
       /\ stack_offset' = r.offset
       /\ stack_pad' = r.pad
       /\ lastOp' = "enter_failed"
    /\ UNCHANGED <<callVars, nax, active, gridVars, designVars>>

\* the innermost block ends, normally or by an exception: __exit__ runs
Exit(raised) ==
    /\ active # <<>>
    /\ LET r == GridStackExit(active[Len(active)], StackState) IN
       /\ stack_offset' = r.offset
       /\ stack_pad' = r.pad
    /\ active' = SubSeq(active, 1, Len(active) - 1)
    /\ lastOp' = IF raised THEN "exit_raised" ELSE "exit_normal"
    /\ UNCHANGED <<callVars, nax, gridVars, designVars>>

NextStack ==
    \/ \E grids \in Stacks : Enter(grids)
    \/ \E grids \in Stacks : EnterFails(grids)
    \/ \E raised \in BOOLEAN : Exit(raised)

SpecStack == InitStack /\ [][NextStack]_vars

----------------------------------------------------------------------------
(* Claims about GridStack *)

Members(i) == Range(active[i])

InActiveScope(g) == \E i \in 1..Len(active) : g \in Members(i)

NoDuplicates(grids) ==
    \A i, j \in 1..Len(grids) : i # j => grids[i] # grids[j]

\* the axes of the members before / after position i
AxesBefore(grids, i) == SumSeq([j \in 1..(i - 1) |-> nax[grids[j]]])
AxesAfter(grids, i) == SumSeq([j \in 1..(Len(grids) - i) |-> nax[grids[i + j]]])
AxesTotal(grids) == SumSeq([j \in 1..Len(grids) |-> nax[grids[j]]])

\* C1: when a scope that was entered ends, normally or by an error, every
\* member has _stack_offset = 0 and _stack_pad = 0 in the state that follows,
\* and a GridStack of the same members can be entered from that state.
C1_ExitResetsMembers ==
    [][Len(active') < Len(active) =>
        LET grids == active[Len(active)] IN
        /\ \A g \in Range(grids) : stack_offset'[g] = 0 /\ stack_pad'[g] = 0
        /\ GridStackEnter(grids, [offset |-> stack_offset', pad |-> stack_pad']).ok
      ]_vars

\* a scope has just ended by an error, inside another scope that is still
\* open
C1_Witness ==
    /\ lastOp = "exit_raised"
    /\ active # <<>>

\* C2: in every reachable state a grid that is a member of no active scope
\* has _stack_offset = 0 and _stack_pad = 0.
C2_UnstackedGridsAreZero ==
    \A g \in Grids : ~InActiveScope(g) => stack_offset[g] = 0 /\ stack_pad[g] = 0

\* C3: __enter__ never succeeds for a stack that has a member of an active
\* scope among its members, or the same grid twice.
C3_HazardousEnterFails ==
    [][Len(active') > Len(active) =>
        LET grids == active'[Len(active')] IN
        /\ NoDuplicates(grids)
        /\ \A g \in Range(grids) : ~InActiveScope(g)
      ]_vars

\* C4: while a scope is active, member i has _stack_offset = the axes of the
\* members before it and _stack_pad = the axes of the members after it, so
\* offset + own axes + pad is the combined number of dimensions; axis() of
\* its k-th axis is k + that offset, and its axis arrays have own axes + pad
\* dimensions.
C4_ActiveScopeLayout ==
    \A s \in 1..Len(active) :
        LET grids == active[s] IN
        \A i \in 1..Len(grids) :
            LET g == grids[i] IN
            /\ stack_offset[g] = AxesBefore(grids, i)
            /\ stack_pad[g] = AxesAfter(grids, i)
            /\ stack_offset[g] + nax[g] + stack_pad[g] = AxesTotal(grids)
            /\ \A k \in 0..(nax[g] - 1) : GridAxis(g, k) = AxesBefore(grids, i) + k
            /\ GridAttrNDim(g) + AxesBefore(grids, i) = AxesTotal(grids)

----------------------------------------------------------------------------
(* Grid: shapes, and subgrid()                                             *)
(*                                                                         *)
(* A grid is [sizes, cons, cnt]: sizes[k] is the number of values its k-th *)
(* axis was given; cons is the set of positions of the axes its constraint *)
(* names ({} without a constraint); cnt = np.count_nonzero(constraint_eval)*)

NAxes(g) == Len(g.sizes)

\* Grid.shape: lines 24 and 53-60
GridShape(g) ==
    [k \in 1..NAxes(g) |->
        IF k \in g.cons THEN (IF k = Min(g.cons) THEN g.cnt ELSE 1)
        ELSE g.sizes[k]]

\* the size of Grid.axes[name], per axis: lines 20 and 61
GridAxisSize(g) ==
    [k \in 1..NAxes(g) |-> IF k \in g.cons THEN g.cnt ELSE g.sizes[k]]

\* np.prod(self.shape), line 208
TotalSize(g) == ProdSeq(GridShape(g))

\* the index along dimension k of the cell with row-major index c in an
\* array of this shape (np.nonzero lists the cells in row-major order)
Unravel(shape, c, k) ==
    (c \div ProdSeq(SubSeq(shape, k + 1, Len(shape)))) % shape[k]

\* the shape np.squeeze leaves: the dimensions that are not 1
Squeezed(shape) == SelectSeq(shape, LAMBDA n : n # 1)

\* the mutation of ChunkCells: the cells of the chunk, last cell first
ChunkCellsReversed(total, N, i) ==
    LET lo == i * N
        hi == IF (i + 1) * N < total THEN (i + 1) * N ELSE total
    IN  [t \in 1..(hi - lo) |-> hi - t]

\* the cells with constraint_func(idx) true for chunk i, in row-major order:
\* (idx >= i*N) & (idx < (i+1)*N), line 214, idx = arange(prod(full_shape))
ChunkCells(total, N, i) ==
    LET lo == i * N
        hi == IF (i + 1) * N < total THEN (i + 1) * N ELSE total
    IN  [t \in 1..(hi - lo) |-> lo + t - 1]

\* Grid(**self.axes, constraint=constraint_func, full_shape=self.shape),
\* line 215 running lines 11-76, for chunk i of parent grid g.
\*   rows[k][t]: the index into the parent's axes[name].ravel() of the value
\*   the subgrid's k-th axis holds at position t (the mapper of line 49).
SubgridCtor(g, N, i, np0d) ==
    LET full  == GridShape(g)
        asz   == GridAxisSize(g)
        n     == NAxes(g)
        cells == ChunkCells(TotalSize(g), N, i)
        d     == Len(Squeezed(full))
        \* positions of the dimensions squeeze keeps
        kept  == SelectSeq([k \in 1..n |-> k], LAMBDA k : full[k] # 1)
        \* np.squeeze(constraint_eval).nonzero(): d index arrays (one, for a
        \* 0-d array, where the build still allows it)
        nz    == IF d = 0
                 THEN << [t \in 1..Len(cells) |-> 0] >>
                 ELSE [j \in 1..d |->
                        [t \in 1..Len(cells) |-> Unravel(full, cells[t], kept[j])]]
        \* ... * np.ones((len(self.names), 1)): (d,k) against (n,1)
        rows  == [k \in 1..n |-> IF Len(nz) = 1 THEN nz[1] ELSE nz[k]]
    IN  IF d = 0 /\ np0d = "error"
        THEN [err |-> "ValueError"]
        ELSE IF Len(nz) # 1 /\ Len(nz) # n
        THEN [err |-> "ValueError"]
        ELSE IF \E k \in 1..n : \E t \in 1..Len(cells) : rows[k][t] >= asz[k]
        THEN [err |-> "IndexError"]
        ELSE [err   |-> "",
              shape |-> [k \in 1..n |-> IF k = 1 THEN Len(cells) ELSE 1],
              rows  |-> rows,
              mask  |-> Range(cells),
              maskShape |-> full]

\* the number of times the loop of subgrid() runs, lines 212-213
NumGrids(g, N) == CeilDiv(TotalSize(g), N)

\* the grids subgrid() is called on
UnconstrainedGrids ==
    {[sizes |-> sz, cons |-> {}, cnt |-> 0] : sz \in SeqsUpTo(1..MaxAxisLen, MaxAxes)}

\* constrained grids Grid.__init__ builds: every constrained axis has more
\* than one value, and 0..(all combinations) of them survive
ConstrainedGrids ==
    UNION { UNION { {[sizes |-> sz, cons |-> cs, cnt |-> c] :
                        c \in 0..ProdSeq([j \in 1..Len(sz) |->
                                            IF j \in cs THEN sz[j] ELSE 1])} :
                    cs \in {x \in SUBSET (1..Len(sz)) :
                              x # {} /\ \A j \in x : sz[j] > 1} } :
            sz \in SeqsUpTo(1..MaxAxisLen, MaxAxes) }

InputGrids == UnconstrainedGrids \cup ConstrainedGrids

StackIdle ==
    /\ nax = [g \in Grids |-> 0]
    /\ stack_offset = GridInitStack.offset
    /\ stack_pad = GridInitStack.pad
    /\ active = <<>>
    /\ lastOp = "none"

InitGrid ==
    /\ numpy0d \in {"legacy", "error"}
    /\ sgrid \in InputGrids
    /\ sN \in 1..MaxChunk
    /\ sI = 0
    /\ sYielded = <<>>
    /\ sStatus = "running"
    /\ StackIdle
    /\ DesignIdle
    /\ CallIdle

\* next() on the generator: the loop body runs once more and yields
SubgridYield ==
    /\ sStatus = "running"
    /\ sI < NumGrids(sgrid, sN)
    /\ LET r == SubgridCtor(sgrid, sN, sI, numpy0d) IN
       /\ r.err = ""
       /\ sYielded' = Append(sYielded, r)
       /\ sI' = sI + 1
    /\ UNCHANGED <<callVars, numpy0d, sgrid, sN, sStatus, stackVars, designVars>>

\* next() on the generator: building the subgrid raises
SubgridRaises ==
    /\ sStatus = "running"
    /\ sI < NumGrids(sgrid, sN)
    /\ LET r == SubgridCtor(sgrid, sN, sI, numpy0d) IN
       /\ r.err # ""
       /\ sStatus' = r.err
    /\ UNCHANGED <<callVars, numpy0d, sgrid, sN, sI, sYielded, stackVars, designVars>>

\* next() on the generator: the loop is over (StopIteration)
SubgridStop ==
    /\ sStatus = "running"
    /\ sI >= NumGrids(sgrid, sN)
    /\ sStatus' = "done"
    /\ UNCHANGED <<callVars, numpy0d, sgrid, sN, sI, sYielded, stackVars, designVars>>

NextGrid == SubgridYield \/ SubgridRaises \/ SubgridStop

SpecGrid == InitGrid /\ [][NextGrid]_vars

\* C5: for every grid and every positive N, subgrid(N) runs to its end and
\* has then yielded ceil(total/N) chunks; each mask has the parent's shape
\* and selects 1..N cells; the masks are pairwise disjoint and cover every
\* cell. (Stated for the builds where nonzero() of a 0-d array still answers.)
C5_SubgridPartitions ==
    numpy0d = "legacy" =>
        /\ sStatus \notin {"ValueError", "IndexError"}
        /\ sStatus = "done" =>
            /\ Len(sYielded) = CeilDiv(TotalSize(sgrid), sN)
            /\ \A i \in 1..Len(sYielded) :
                /\ sYielded[i].maskShape = GridShape(sgrid)
                /\ Cardinality(sYielded[i].mask) >= 1
                /\ Cardinality(sYielded[i].mask) <= sN
            /\ \A i, j \in 1..Len(sYielded) :
                i # j => sYielded[i].mask \cap sYielded[j].mask = {}
            /\ UNION {sYielded[i].mask : i \in 1..Len(sYielded)}
                 = 0..(TotalSize(sgrid) - 1)

\* the generator has stopped on an error
C5_Witness == sStatus = "IndexError" /\ numpy0d = "legacy"

----------------------------------------------------------------------------
(* ExperimentDesigner                                                      *)
(*                                                                         *)
(* Numbers are kept symbolic where the code only moves them: a prior is a  *)
(* tuple of numerators over Denom, one per parameter cell; H0 is the       *)
(* multiset of the prior's positive probabilities (which fixes             *)
(* -sum p log2 p); an EIG cell holds the prior and the design point (the   *)
(* indices into the designs grid's axis values) it was computed from; the  *)
(* marginal and IG attributes hold the prior and the chunk they were       *)
(* computed for.                                                           *)

\* GridStack(self.features, s, self.parameters): the grids of the pool that
\* stand for features, the chunk s and parameters
DesignerStack == <<1, 2, 3>>
ChunkGrid == DesignerStack[2]

\* the parameters grid: Grid(a=<scalar>, b=<NParams values>) as in the tests
ParamGrid == [sizes |-> <<1, NParams>>, cons |-> {}, cnt |-> 0]

PCells == 1..TotalSize(ParamGrid)

\* a prior gives each parameter cell a probability k/Denom
Denom == NParams

\* the priors calculateEIG is called with: the flat prior, the point mass on
\* the first cell, and np.ones(shape) that was not normalized
Priors ==
    { [c \in PCells |-> 1],
      [c \in PCells |-> IF c = 1 THEN Denom ELSE 0],
      [c \in PCells |-> Denom] }

\* np.allclose(self.parameters.sum(self.prior), 1), line 77
Normalized(p) == SumSeq(p) = Denom

\* -self.parameters.sum(prior * log2prior), lines 80-81
H0Of(p) == [v \in 1..Denom |-> Cardinality({c \in PCells : p[c] = v})]

\* the designs grids a designer is built on. What subgrid() and the designer
\* do with a constrained grid depends on its sizes only through cnt, so the
\* constrained axes are taken with MaxAxisLen values each.
DesignGrids ==
    {g \in InputGrids :
        /\ TotalSize(g) \in 1..MaxDesignCells
        /\ \A k \in g.cons : g.sizes[k] = MaxAxisLen}

\* the design point at cell c of the designs grid g: per axis, the index of
\* its value in g.axes[name].ravel()
DesignOf(g, c) ==
    [k \in 1..NAxes(g) |->
        Unravel(GridShape(g), c, IF k \in g.cons THEN Min(g.cons) ELSE k)]

\* the values self.features.sum(marginal * IG).flatten() of a chunk: one per
\* cell t of s, computed from the axis values s holds at t
ChunkEIG(p, s, t) ==
    [prior |-> p, design |-> [k \in 1..Len(s.rows) |-> s.rows[k][t]]]

\* self.EIG[mask] = values: the True cells of mask, in row-major order, take
\* the values in order (line 131)
MaskAssign(E, mask, p, s) ==
    [c \in DOMAIN E |->
        IF c \in mask
        THEN ChunkEIG(p, s, Cardinality({x \in mask : x < c}) + 1)
        ELSE E[c]]

StoreEveryChunk(i, old, new) == new

\* `if i == 0: self.marginal = ...` and `if i == 0: self.IG = ...`,
\* lines 94-96 and 120-121
StoreFirstChunk(i, old, new) == IF i = 0 THEN new ELSE old

MarginalNeverChecks(init) == FALSE

\* `if not self._initialized: raise RuntimeError`, lines 143-144
MarginalNotReady(init) == ~init

Snapshot ==
    [valid |-> TRUE, prior |-> prior, H0 |-> H0, EIG |-> EIG,
     marginal |-> marginal, IG |-> IG, initialized |-> initialized]

\* ExperimentDesigner(parameters, features, designs, unnorm_lfunc, mem=...)
\* has returned: design_subgrid is the whole grid (mem=None) or a chunk size
\* a memory limit gives
Init ==
    /\ sgrid \in DesignGrids
    /\ numpy0d \in {"legacy", "error"}
    /\ numpy0d = "error" => TotalSize(sgrid) = 1
    /\ design_subgrid \in 1..TotalSize(sgrid)
    /\ sN = 1
    /\ sI = 0
    /\ sYielded = <<>>
    /\ sStatus = "idle"
    /\ nax = [g \in Grids |->
                IF g = DesignerStack[1] THEN 1
                ELSE IF g = ChunkGrid THEN NAxes(sgrid)
                ELSE IF g = DesignerStack[3] THEN NAxes(ParamGrid)
                ELSE 0]
    /\ stack_offset = GridInitStack.offset
    /\ stack_pad = GridInitStack.pad
    /\ active = <<>>
    /\ lastOp = "none"
    /\ initialized = FALSE
    /\ prior = <<>>
    /\ H0 = <<>>
    /\ EIG = [c \in 0..(TotalSize(sgrid) - 1) |-> NaN]
    /\ marginal = NoTensor
    /\ IG = NoTensor
    /\ subgrid_shape = <<>>
    /\ has_buffer = FALSE
    /\ pc = "idle"
    /\ cur = NoChunk
    /\ lastResult = NoResult
    /\ good = NoSnapshot
    /\ CallIdle

\* calculateEIG(p), lines 76-78: the prior does not sum to 1
CalculateEIG_Rejected(p) ==
    /\ pc = "idle"
    /\ ~Normalized(p)
    /\ prior' = p
    /\ lastResult' = [op |-> "calculateEIG", outcome |-> "ValueError:prior"]
    /\ args' = [op |-> "calculateEIG"]
    /\ ret' = [err |-> "ValueError:prior"]
    /\ UNCHANGED <<stackVars, gridVars, design_subgrid, initialized, H0, EIG,
                   marginal, IG, subgrid_shape, has_buffer, pc, cur, good>>

\* calculateEIG(p), lines 76-82: up to the creation of the generator
CalculateEIG_Start(p) ==
    /\ pc = "idle"
    /\ Normalized(p)
    /\ prior' = p
    /\ H0' = H0Of(p)
    /\ sN' = design_subgrid
    /\ sI' = 0
    /\ sYielded' = <<>>
    /\ sStatus' = "running"
    /\ pc' = "loop"
    /\ lastResult' = [op |-> "calculateEIG", outcome |-> "running"]
    /\ args' = [op |-> "calculateEIG"]
    /\ ret' = NoRet
    /\ UNCHANGED <<stackVars, numpy0d, sgrid, design_subgrid, initialized, EIG,
                   marginal, IG, subgrid_shape, has_buffer, cur, good>>

\* lines 82-86: the generator yields the next (s, mask); s is a new grid;
\* GridStack(features, s, parameters) is entered
CalculateEIG_Chunk ==
    /\ pc = "loop"
    /\ sI < NumGrids(sgrid, sN)
    /\ LET r == SubgridCtor(sgrid, sN, sI, numpy0d)
           e == GridStackEnter(DesignerStack,
                    [offset |-> [stack_offset EXCEPT ![ChunkGrid] = 0],
                     pad    |-> [stack_pad EXCEPT ![ChunkGrid] = 0]])
       IN
       /\ r.err = ""
       /\ cur' = [i |-> sI, shape |-> r.shape, rows |-> r.rows, mask |-> r.mask]
       /\ sI' = sI + 1
       /\ subgrid_shape' = IF sI = 0 THEN r.shape ELSE subgrid_shape
       /\ stack_offset' = e.offset
       /\ stack_pad' = e.pad
       /\ IF e.ok
          THEN /\ active' = Append(active, DesignerStack)
               /\ lastOp' = "entered"
               /\ pc' = "body"
               /\ UNCHANGED lastResult
          ELSE /\ lastOp' = "enter_failed"
               /\ pc' = "idle"
               /\ lastResult' = [op |-> "calculateEIG",
                                 outcome |-> "AssertionError:stack"]
               /\ UNCHANGED active
    /\ UNCHANGED <<callVars, nax, numpy0d, sgrid, sN, sYielded, sStatus, design_subgrid,
                   initialized, prior, H0, EIG, marginal, IG, has_buffer,
                   good>>

\* line 82: building the next subgrid raises inside the generator
CalculateEIG_SubgridRaises ==
    /\ pc = "loop"
    /\ sI < NumGrids(sgrid, sN)
    /\ LET r == SubgridCtor(sgrid, sN, sI, numpy0d) IN
       /\ r.err # ""
       /\ sStatus' = r.err
       /\ lastResult' = [op |-> "calculateEIG", outcome |-> "subgrid raised"]
    /\ pc' = "idle"
    /\ UNCHANGED <<callVars, stackVars, numpy0d, sgrid, sN, sI, sYielded, design_subgrid,
                   initialized, prior, H0, EIG, marginal, IG, subgrid_shape,
                   has_buffer, cur, good>>

\* lines 87-131, and __exit__ as the block is left. how: "ok", or the
\* likelihood function raises (line 87), or the likelihood is not normalized
\* over the features (line 88)
CalculateEIG_Body(how) ==
    /\ pc = "body"
    /\ LET x == GridStackExit(active[Len(active)], StackState) IN
       /\ stack_offset' = x.offset
       /\ stack_pad' = x.pad
    /\ active' = SubSeq(active, 1, Len(active) - 1)
    /\ lastOp' = IF how = "ok" THEN "exit_normal" ELSE "exit_raised"
    /\ IF how = "ok"
       THEN /\ has_buffer' = TRUE
            /\ marginal' = StoreFirstChunk(cur.i, marginal,
                                           [prior |-> prior, chunk |-> cur.i])
            /\ IG' = StoreFirstChunk(cur.i, IG, [prior |-> prior, chunk |-> cur.i])
            /\ EIG' = MaskAssign(EIG, cur.mask, prior, cur)
            /\ sYielded' = Append(sYielded, cur)
            /\ pc' = "loop"
            /\ UNCHANGED lastResult
       ELSE /\ pc' = "idle"
            /\ lastResult' = [op |-> "calculateEIG", outcome |-> how]
            /\ UNCHANGED <<has_buffer, marginal, IG, EIG, sYielded>>
    /\ UNCHANGED <<callVars, nax, numpy0d, sgrid, sN, sI, sStatus, design_subgrid,
                   initialized, prior, H0, subgrid_shape, cur, good>>

\* lines 132-134, once the generator is exhausted
CalculateEIG_Finish ==
    /\ pc = "loop"
    /\ sI >= NumGrids(sgrid, sN)
    /\ sStatus' = "done"
    /\ initialized' = TRUE
    /\ has_buffer' = FALSE
    /\ lastResult' = [op |-> "calculateEIG",
                      outcome |-> IF has_buffer THEN "returned"
                                  ELSE "AttributeError"]
    /\ good' = [Snapshot EXCEPT !.initialized = TRUE]
    /\ pc' = "idle"
    /\ UNCHANGED <<callVars, stackVars, numpy0d, sgrid, sN, sI, sYielded, design_subgrid,
                   prior, H0, EIG, marginal, IG, subgrid_shape, cur>>

\* the loop of calculateMarginalEIG, lines 153-173, from chunk i on: E is its
\* local EIG array. A cell holds the prior, the design point and the nuisance
\* axes it was computed from. failAt is the chunk at which the likelihood
\* function raises (-1: it does not).
RECURSIVE MarginalLoop(_, _, _, _)
MarginalLoop(E, i, nuis, failAt) ==
    IF i >= NumGrids(sgrid, design_subgrid)
    THEN [outcome |-> "returned", EIG |-> E, buffer |-> FALSE]
    ELSE LET r == SubgridCtor(sgrid, design_subgrid, i, numpy0d) IN
         IF r.err # ""
         THEN [outcome |-> "subgrid raised", EIG |-> E, buffer |-> i > 0]
         ELSE IF i = failAt
         THEN [outcome |-> "lfunc raised", EIG |-> E, buffer |-> i > 0]
         ELSE MarginalLoop(
                [c \in DOMAIN E |->
                    IF c \in r.mask
                    THEN [prior  |-> prior,
                          design |-> ChunkEIG(prior, r,
                                       Cardinality({x \in r.mask : x < c}) + 1).design,
                          nuis   |-> nuis]
                    ELSE E[c]],
                i + 1, nuis, failAt)

\* calculateMarginalEIG(*nuisance_params), lines 141-175; nuis is the set of
\* positions of the named axes in the parameters grid. The marginal prior
\* keeps its summed dimensions with size 1 (keepdims=True, line 147), so
\* Grid.sum at line 150 rejects its shape (grid.py 138-141) when a named axis
\* has more than one value.
CalculateMarginalEIG(nuis, failAt) ==
    /\ pc = "idle"
    /\ LET loop == MarginalLoop([c \in DOMAIN EIG |-> NaN], 0, nuis, failAt)
           outcome == IF MarginalNotReady(initialized) THEN "RuntimeError"
                      ELSE IF \E k \in nuis : ParamGrid.sizes[k] > 1
                           THEN "ValueError:shape"
                           ELSE loop.outcome
           inLoop == outcome \notin {"RuntimeError", "ValueError:shape"}
       IN
       /\ lastResult' = [op |-> "calculateMarginalEIG", outcome |-> outcome]
       /\ has_buffer' = IF inLoop THEN loop.buffer ELSE has_buffer
       /\ args' = [op |-> "calculateMarginalEIG", nuis |-> nuis]
       /\ ret' = IF outcome = "returned"
                 THEN [err |-> "", EIG |-> loop.EIG]
                 ELSE [err |-> outcome]
    /\ UNCHANGED <<stackVars, gridVars, design_subgrid, initialized, prior, H0,
                   EIG, marginal, IG, subgrid_shape, pc, cur, good>>

\* the values unnorm_lfunc gives at one (design, feature) point, per
\* parameter cell: 0 where the observation is impossible
Likelihoods == [PCells -> 0..1]

\* lines 225-234 for the likelihood values L: the array returned, each cell
\* a fraction [num, den].
\*   buffer = L * prior; post_norm = sum(buffer);
\*   buffer / post_norm where post_norm > 0; buffer + prior where post_norm = 0
PosteriorOf(L, p) ==
    LET buffer    == [c \in PCells |-> L[c] * p[c]]
        post_norm == SumSeq(buffer)
    IN  [c \in PCells |->
            IF post_norm > 0
            THEN [num |-> buffer[c], den |-> post_norm]
            ELSE [num |-> buffer[c] + p[c], den |-> Denom]]

\* get_posterior(**design_and_features), lines 209-234, where unnorm_lfunc
\* gives L at the point named
GetPosterior(L) ==
    /\ pc = "idle"
    /\ args' = [op |-> "get_posterior", L |-> L]
    /\ lastResult' = [op |-> "get_posterior",
                      outcome |-> IF initialized THEN "returned" ELSE "None"]
    /\ ret' = IF initialized
              THEN [err |-> "", post |-> PosteriorOf(L, prior)]
              ELSE [err |-> "", post |-> <<>>]
    /\ has_buffer' = IF initialized THEN TRUE ELSE has_buffer
    /\ UNCHANGED <<stackVars, gridVars, design_subgrid, initialized, prior, H0,
                   EIG, marginal, IG, subgrid_shape, pc, cur, good>>

Next ==
    \/ \E p \in Priors : CalculateEIG_Rejected(p)
    \/ \E p \in Priors : CalculateEIG_Start(p)
    \/ CalculateEIG_Chunk
    \/ CalculateEIG_SubgridRaises
    \/ \E how \in {"ok", "lfunc raised", "AssertionError:likelihood"} :
          CalculateEIG_Body(how)
    \/ CalculateEIG_Finish
    \/ \E nuis \in SUBSET (1..NAxes(ParamGrid)) :
          \E failAt \in {0 - 1, 0} : CalculateMarginalEIG(nuis, failAt)
    \/ \E L \in Likelihoods : GetPosterior(L)

Spec == Init /\ [][Next]_vars

----------------------------------------------------------------------------
(* Claims about ExperimentDesigner *)

\* a calculateEIG call has ended and the state is the one it left
AfterCalculateEIG == pc = "idle" /\ lastResult.op = "calculateEIG"

\* the chunks the last calculateEIG call has processed
Processed == Len(sYielded)

\* C6: with a normalized prior and a likelihood that neither raises nor fails
\* its normalization check, calculateEIG returns, whatever design_subgrid is,
\* with every design cell written exactly once and holding the value computed
\* from the prior and that cell's design point; no cell is left NaN.
C6_ChunkSizeIndependentEIG ==
    ( /\ numpy0d = "legacy"
      /\ AfterCalculateEIG
      /\ lastResult.outcome \notin
            {"ValueError:prior", "lfunc raised", "AssertionError:likelihood"} )
    => /\ lastResult.outcome = "returned"
       /\ \A c \in DOMAIN EIG :
            /\ EIG[c] = [prior |-> prior, design |-> DesignOf(sgrid, c)]
            /\ Cardinality({i \in 1..Processed : c \in sYielded[i].mask}) = 1

\* C7: the designer is ready exactly when a calculateEIG call has run to
\* completion (so a failed call leaves a not-ready designer not ready), and
\* calculateMarginalEIG raises RuntimeError exactly when none has.
C7_ReadyIffCompleted ==
    /\ initialized <=> good.valid
    /\ lastResult.op = "calculateMarginalEIG" =>
          (lastResult.outcome = "RuntimeError" <=> ~good.valid)

\* calculateMarginalEIG has raised RuntimeError on a designer whose
\* calculateEIG calls so far all failed, one of them after writing a chunk
C7_Witness ==
    /\ lastResult = [op |-> "calculateMarginalEIG", outcome |-> "RuntimeError"]
    /\ \E c \in DOMAIN EIG : EIG[c] # NaN

\* C8: a calculateEIG call that rejects its prior leaves prior, H0, EIG, IG,
\* marginal and readiness of a ready designer as they were.
C8_RejectedPriorChangesNothing ==
    [][(initialized /\ lastResult'.outcome = "ValueError:prior") =>
          /\ prior' = prior
          /\ H0' = H0
          /\ EIG' = EIG
          /\ IG' = IG
          /\ marginal' = marginal
          /\ initialized' = initialized
      ]_vars

\* C9: after a calculateEIG call on a ready designer failed in the likelihood
\* of some chunk, prior, H0 and EIG are those of the last call that completed.
C9_FailedCallKeepsReadyState ==
    ( /\ AfterCalculateEIG
      /\ good.valid
      /\ lastResult.outcome \in {"lfunc raised", "AssertionError:likelihood"} )
    => /\ prior = good.prior
       /\ H0 = good.H0
       /\ EIG = good.EIG

\* C10 as stated: after a calculateEIG call that processed more than one
\* chunk, marginal and IG are those of the last chunk processed.
C10_LastChunkRetained ==
    ( /\ AfterCalculateEIG
      /\ lastResult.outcome # "ValueError:prior"
      /\ Processed >= 2 )
    => /\ marginal = [prior |-> prior, chunk |-> Processed - 1]
       /\ IG = [prior |-> prior, chunk |-> Processed - 1]

\* C10 as amended: after a calculateEIG call that processed more than one
\* chunk, marginal and IG are those of the first chunk (i = 0) of that call.
C10_FirstChunkRetained ==
    ( /\ AfterCalculateEIG
      /\ lastResult.outcome # "ValueError:prior"
      /\ Processed >= 2 )
    => /\ marginal = [prior |-> prior, chunk |-> 0]
       /\ IG = [prior |-> prior, chunk |-> 0]

\* a calculateEIG call has returned after three chunks
C10_Witness ==
    /\ AfterCalculateEIG
    /\ lastResult.outcome = "returned"
    /\ Processed >= 3

----------------------------------------------------------------------------
(* ExperimentDesigner.__init__ and its memory budget                       *)
(*                                                                         *)
(* mem is a Python float and the arithmetic of lines 41-44 is binary64. A  *)
(* positive binary64 number is kept as [m, e]: m its Float64Mantissa       *)
(* significant bits, most significant (a 1) first, e the exponent, for the *)
(* value 0.m * 2^e. A budget is given in units of 16 bytes, mem =          *)
(* units/2^16 MB, which binary64 holds exactly; so is the divisor          *)
(* 2*(F*D*P*8)/(1 << 20) = F*D*P/2^16 of line 41, and the quotient of line *)
(* 41 is the binary64 nearest to units/(F*D*P).                            *)

\* the precision of a Python float
Float64Mantissa == 53

\* budgets run up to MaxMemUnits units of 16 bytes
MaxMemUnits == 8
\* the features grid has 1..MaxFeatures cells
MaxFeatures == 2
\* the designs grid has 1..MaxDesigns cells
MaxDesigns == 49

\* the number the binary digits bits stand for (fewer than 31 of them)
RECURSIVE BitsInt(_)
BitsInt(bits) ==
    IF Len(bits) = 0 THEN 0
    ELSE IF Len(bits) = 1 THEN bits[1]
    ELSE LET h == Len(bits) \div 2
         IN  BitsInt(SubSeq(bits, 1, h)) * 2^(Len(bits) - h)
             + BitsInt(SubSeq(bits, h + 1, Len(bits)))

\* c < 2^n as n binary digits, most significant first
IntBits(c, n) == [i \in 1..n |-> (c \div 2^(n - i)) % 2]

\* the number of binary digits of c (0 for 0)
RECURSIVE BitLen(_)
BitLen(c) == IF c = 0 THEN 0 ELSE 1 + BitLen(c \div 2)

\* 2^i modulo d, by repeated squaring
RECURSIVE Pow2Mod(_, _)
Pow2Mod(i, d) ==
    IF i = 0 THEN 1 % d
    ELSE LET h == Pow2Mod(i \div 2, d)
         IN  (((h * h) % d) * (IF i % 2 = 1 THEN 2 ELSE 1)) % d

\* what is left of r/den, r < den, after i binary digits of long division
DivRem(r, den, i) == (r * Pow2Mod(i, den)) % den

\* the first n binary digits of r/den
DivBits(r, den, n) ==
    [i \in 1..n |-> IF 2 * DivRem(r, den, i - 1) >= den THEN 1 ELSE 0]

\* one unit in the last place more (all zeros when the digits were all ones)
IncBits(bits) ==
    LET zeros == {i \in 1..Len(bits) : bits[i] = 0}
        z     == IF zeros = {} THEN 0
                 ELSE CHOOSE i \in zeros : \A k \in zeros : k <= i
    IN  [i \in 1..Len(bits) |-> IF i < z THEN bits[i] ELSE IF i = z THEN 1 ELSE 0]

\* round to nearest, ties to even: rest is how the digits that were dropped
\* compare with half a unit in the last place (-1 below, 0 equal, 1 above)
Float64Round(bits, e, rest) ==
    LET up  == rest = 1 \/ (rest = 0 /\ bits[Len(bits)] = 1)
        inc == IncBits(bits)
    IN  IF ~up THEN [m |-> bits, e |-> e]
        ELSE IF inc[1] = 0
        THEN [m |-> [i \in 1..Len(bits) |-> IF i = 1 THEN 1 ELSE 0], e |-> e + 1]
        ELSE [m |-> inc, e |-> e]

\* num/den scaled by a power of two into [1/2, 1)
RECURSIVE Normalize(_, _, _)
Normalize(num, den, e) ==
    IF num >= den THEN Normalize(num, 2 * den, e + 1)
    ELSE IF 2 * num < den THEN Normalize(2 * num, den, e - 1)
    ELSE [num |-> num, den |-> den, e |-> e]

\* the binary64 quotient of two positive numbers whose exact ratio is a/b
Float64Div(a, b) ==
    LET n == Normalize(a, b, 0)
        r == DivRem(n.num, n.den, Float64Mantissa)
    IN  Float64Round(DivBits(n.num, n.den, Float64Mantissa), n.e,
                     IF 2 * r > n.den THEN 1 ELSE IF 2 * r = n.den THEN 0 ELSE 0 - 1)

\* the digits are multiplied LimbBits at a time
LimbBits == 14

\* the binary digits of bits * k + carry, for k < 2^LimbBits
RECURSIVE MulBits(_, _, _)
MulBits(bits, k, carry) ==
    IF Len(bits) = 0 THEN IntBits(carry, BitLen(carry))
    ELSE LET w  == IF Len(bits) < LimbBits THEN Len(bits) ELSE LimbBits
             lo == SubSeq(bits, Len(bits) - w + 1, Len(bits))
             t  == BitsInt(lo) * k + carry
         IN  MulBits(SubSeq(bits, 1, Len(bits) - w), k, t \div 2^w)
             \o IntBits(t % 2^w, w)

\* the binary64 product of x and the integer k >= 1 (float * np.int64)
Float64MulInt(x, k) ==
    LET p    == MulBits(x.m, k, 0)
        more == Len(p) - Float64Mantissa
        tail == SubSeq(p, Float64Mantissa + 1, Len(p))
        rest == IF more = 0 THEN 0 - 1
                ELSE IF tail[1] = 0 THEN 0 - 1
                ELSE IF \E j \in 2..more : tail[j] = 1 THEN 1 ELSE 0
    IN  Float64Round(SubSeq(p, 1, Float64Mantissa), x.e + more, rest)

\* int(x): the integer part
Float64Trunc(x) == IF x.e <= 0 THEN 0 ELSE BitsInt(SubSeq(x.m, 1, x.e))

\* int(frac * np.prod(self.designs.shape)), lines 41-44, for a budget of
\* units * 16 bytes and grids of F, D and P cells
DesignSubgridOf(units, F, D, P) ==
    Float64Trunc(Float64MulInt(Float64Div(units, F * D * P), D))

\* mem=None, or mem = units/2^16 MB
MemValues ==
    {[none |-> TRUE, units |-> 0]}
    \cup {[none |-> FALSE, units |-> u] : u \in (0 - 1)..MaxMemUnits}

\* ExperimentDesigner.__init__, lines 28-49. chunks is the number of chunks
\* self.designs.subgrid(self.design_subgrid) then yields (grid.py 212-213)
DesignerCtor(mem, F, D, P) ==
    IF mem.none
    THEN [err |-> "", design_subgrid |-> D, num_subgrids |-> 1,
          chunks |-> CeilDiv(D, D), initialized |-> FALSE]
    ELSE IF mem.units <= 0
    THEN [err |-> "ValueError"]
    ELSE LET c == DesignSubgridOf(mem.units, F, D, P) IN
         IF c = 0
         THEN [err |-> "ValueError"]
         ELSE [err |-> "", design_subgrid |-> c, num_subgrids |-> CeilDiv(D, c),
               chunks |-> CeilDiv(D, c), initialized |-> FALSE]

InitCtor ==
    /\ args \in [op : {"ExperimentDesigner"}, mem : MemValues,
                 F : 1..MaxFeatures, D : 1..MaxDesigns, P : {NParams}]
    /\ ret = NoRet
    /\ nax = [g \in Grids |-> 0]
    /\ stack_offset = GridInitStack.offset
    /\ stack_pad = GridInitStack.pad
    /\ active = <<>>
    /\ lastOp = "none"
    /\ GridIdle
    /\ DesignIdle

\* the constructor returns a designer
Construct ==
    /\ ret = NoRet
    /\ DesignerCtor(args.mem, args.F, args.D, args.P).err = ""
    /\ ret' = DesignerCtor(args.mem, args.F, args.D, args.P)
    /\ UNCHANGED <<args, stackVars, gridVars, designVars>>

\* the constructor raises
ConstructFails ==
    /\ ret = NoRet
    /\ DesignerCtor(args.mem, args.F, args.D, args.P).err # ""
    /\ ret' = DesignerCtor(args.mem, args.F, args.D, args.P)
    /\ UNCHANGED <<args, stackVars, gridVars, designVars>>

NextCtor == Construct \/ ConstructFails

SpecCtor == InitCtor /\ [][NextCtor]_vars

\* the designs that fit in the budget: the largest c with
\* 2 * c * F * P * 8 bytes <= mem * 2^20 bytes
FitsInBudget(a) == a.mem.units \div (a.F * a.P)

\* C11: the constructor raises ValueError exactly when mem <= 0 or mem is
\* positive and not even one design point fits in it; otherwise (mem=None,
\* or at least one design point fits) it returns a designer that is not
\* ready.
C11_CtorRejectsExactlyTooSmall ==
    ret # NoRet =>
        /\ ret.err = "ValueError" <=>
              (~args.mem.none /\ (args.mem.units <= 0 \/ FitsInBudget(args) = 0))
        /\ ret.err = "" => ~ret.initialized

\* the constructor has raised for a budget that holds one design point
C11_Witness ==
    /\ ret # NoRet
    /\ ret.err = "ValueError"
    /\ ~args.mem.none
    /\ FitsInBudget(args) >= 1

\* C12: with a budget, design_subgrid is the largest c that fits in it,
\* num_subgrids = ceil(|designs| / c) and calculateEIG runs that many
\* chunks; with mem=None the chunk is the whole grid and num_subgrids = 1.
C12_ChunkIsLargestThatFits ==
    (ret # NoRet /\ ret.err = "") =>
        /\ ~args.mem.none =>
              /\ ret.design_subgrid = FitsInBudget(args)
              /\ ret.num_subgrids = CeilDiv(args.D, FitsInBudget(args))
        /\ args.mem.none => ret.design_subgrid = args.D /\ ret.num_subgrids = 1
        /\ ret.chunks = ret.num_subgrids

\* a designer was built with a chunk smaller than the budget holds
C12_Witness ==
    /\ ret # NoRet
    /\ ret.err = ""
    /\ ~args.mem.none
    /\ ret.design_subgrid < FitsInBudget(args)

----------------------------------------------------------------------------
(* Claims about calculateMarginalEIG and get_posterior *)

\* C13: on a ready designer, calculateMarginalEIG over any subset of the
\* parameter axes, with a likelihood function that does not raise, returns
\* an array with one value per design cell, each computed from the prior,
\* that cell's design point and the named axes, and no cell left NaN.
C13_MarginalEIGReturnsFullArray ==
    ( /\ lastResult.op = "calculateMarginalEIG"
      /\ initialized
      /\ lastResult.outcome # "lfunc raised" )
    => /\ lastResult.outcome = "returned"
       /\ ret.err = ""
       /\ DOMAIN ret.EIG = DOMAIN EIG
       /\ \A c \in DOMAIN EIG :
            ret.EIG[c] = [prior |-> prior, design |-> DesignOf(sgrid, c),
                          nuis |-> args.nuis]

\* calculateMarginalEIG was called on a ready designer with a parameter
\* axis of more than one value and raised
C13_Witness ==
    /\ lastResult = [op |-> "calculateMarginalEIG", outcome |-> "ValueError:shape"]
    /\ initialized
    /\ \E k \in args.nuis : ParamGrid.sizes[k] > 1

\* C14: get_posterior on a ready designer returns L * prior divided by its
\* sum over the parameters when that sum is positive and the stored prior,
\* cell for cell, when it is zero; the result sums to 1 over the parameters;
\* the stored prior is not changed by the call.
C14_PosteriorNormalizedOrPrior ==
    [][(initialized /\ lastResult'.op = "get_posterior") =>
          LET L == args'.L
              S == SumSeq([c \in PCells |-> L[c] * prior[c]])
              post == ret'.post
          IN  /\ S > 0 => \A c \in PCells :
                    post[c].num * S = L[c] * prior[c] * post[c].den
              /\ S = 0 => \A c \in PCells :
                    post[c].num * Denom = prior[c] * post[c].den
              /\ \A c \in PCells : post[c].den = post[1].den
              /\ SumSeq([c \in PCells |-> post[c].num]) = post[1].den
              /\ prior' = prior
      ]_vars

\* get_posterior has returned the stored prior for an impossible observation
C14_Witness ==
    /\ lastResult = [op |-> "get_posterior", outcome |-> "returned"]
    /\ \A c \in PCells : args.L[c] * prior[c] = 0
    /\ \A c \in PCells : ret.post[c].num = prior[c]

----------------------------------------------------------------------------
(* The arithmetic of one chunk of calculateEIG, lines 87-123, at one design *)
(* point: U[y][t] is what unnorm_lfunc gives for feature cell y and         *)
(* parameter cell t. Quantities are kept exact: a likelihood as its        *)
(* numerator over the column sum, post_norm as its numerator over the      *)
(* product of the column sums and Denom. An information gain is kept as    *)
(* the terms it was added up from: [H0, post], post the posterior whose    *)
(* sum of p*log2(p) was added to H0 (<<>> when every term of that sum was  *)
(* left at 0), or IGZero for a cell that was assigned 0.                   *)

\* unnorm_lfunc gives values 0..MaxLikelihood
MaxLikelihood == 2

FCells == 1..MaxFeatures

Tensors == [FCells -> [PCells -> 0..MaxLikelihood]]

\* self.features.sum(likelihood, keepdims=True), grid.py 172, per parameter cell
ColumnSum(U, t) == SumSeq([y \in FCells |-> U[y][t]])

\* the numerator of post_norm = self.parameters.sum(self._buffer,
\* keepdims=True), line 104, at feature cell y, over the product of the
\* column sums and Denom
PostNorm(U, p, y) ==
    SumSeq([t \in PCells |->
              U[y][t] * p[t]
              * ProdSeq([u \in PCells |-> IF u = t THEN 1 ELSE ColumnSum(U, u)])])

\* where=post_norm > 0 of np.divide, lines 105-107 and 117-119: the cells
\* that are divided
DivideMask(U, p, y) == PostNorm(U, p, y) > 0

\* a cell that is divided has the divisor post_norm = 0
DividesByZero(U, p, y) == DivideMask(U, p, y) /\ PostNorm(U, p, y) = 0

\* the buffer after lines 92-93 and 105-107, per parameter cell: the
\* posterior where post_norm > 0, likelihood * prior unchanged elsewhere
BufferAfterDivide(U, p, y) ==
    [t \in PCells |->
        [num |-> U[y][t] * p[t]
                 * ProdSeq([u \in PCells |-> IF u = t THEN 1 ELSE ColumnSum(U, u)]),
         den |-> IF DivideMask(U, p, y) THEN PostNorm(U, p, y)
                 ELSE ProdSeq([u \in PCells |-> ColumnSum(U, u)]) * Denom]]

\* lines 114-121: H0 + self.parameters.sum(self._buffer) at feature cell y.
\* np.log2 with where=buffer > 0 leaves a buffer cell at 0 untouched.
IGSum(U, p, y) ==
    LET b == BufferAfterDivide(U, p, y) IN
    [H0   |-> H0Of(p),
     post |-> IF \A t \in PCells : b[t].num = 0 THEN <<>> ELSE b]

IGZero == [H0 |-> <<>>, post |-> <<>>]

\* lines 122-123: the local IG, with the cells at post_norm = 0 set to 0
IGLocal(U, p, y) == IF PostNorm(U, p, y) = 0 THEN IGZero ELSE IGSum(U, p, y)

\* the number an information gain stands for is 0: it was assigned 0, or it
\* is H0 plus nothing for a prior with no entropy (all on one cell)
IsZeroGain(x) ==
    \/ x = IGZero
    \/ /\ x.H0 # <<>>
       /\ x.post = <<>>
       /\ x.H0[Denom] = 1

InitKernel ==
    /\ args \in [op : {"chunk"}, U : Tensors, prior : {p \in Priors : Normalized(p)}]
    /\ ret = NoRet
    /\ nax = [g \in Grids |-> 0]
    /\ stack_offset = GridInitStack.offset
    /\ stack_pad = GridInitStack.pad
    /\ active = <<>>
    /\ lastOp = "none"
    /\ GridIdle
    /\ DesignIdle

\* the body of the with block runs for the first chunk (i = 0): IG is the
\* attribute self.IG of line 121, gain the array that goes into EIG (131)
ChunkKernel ==
    /\ ret = NoRet
    /\ \A t \in PCells : ColumnSum(args.U, t) > 0
    /\ ret' = [err  |-> "",
               IG   |-> [y \in FCells |-> IGSum(args.U, args.prior, y)],
               gain |-> [y \in FCells |-> IGLocal(args.U, args.prior, y)],
               divByZero |-> \E y \in FCells : DividesByZero(args.U, args.prior, y)]
    /\ UNCHANGED <<args, stackVars, gridVars, designVars>>

\* the likelihood of some parameter cell is 0 for every feature: normalize
\* gives nan and the assertion of line 88 fails
ChunkKernelFails ==
    /\ ret = NoRet
    /\ \E t \in PCells : ColumnSum(args.U, t) = 0
    /\ ret' = [err |-> "AssertionError:likelihood"]
    /\ UNCHANGED <<args, stackVars, gridVars, designVars>>

NextKernel == ChunkKernel \/ ChunkKernelFails

SpecKernel == InitKernel /\ [][NextKernel]_vars

\* C15: for every (feature, design) cell with post_norm = 0 the information
\* gain is 0, in the value that goes into EIG and in the IG attribute, and
\* no division by zero was performed.
C15_ImpossibleOutcomeGainsNothing ==
    (ret # NoRet /\ ret.err = "") =>
        /\ ~ret.divByZero
        /\ \A y \in FCells :
              PostNorm(args.U, args.prior, y) = 0 =>
                  /\ IsZeroGain(ret.gain[y])
                  /\ IsZeroGain(ret.IG[y])

\* a chunk was computed that has an impossible outcome, with a prior that
\* has entropy
C15_Witness ==
    /\ ret # NoRet
    /\ ret.err = ""
    /\ \E y \in FCells : PostNorm(args.U, args.prior, y) = 0
    /\ args.prior = [c \in PCells |-> 1]

----------------------------------------------------------------------------
(* Grid.__init__ with a constraint over named axes                          *)
(*                                                                         *)
(* The arguments: sizes[k], the number of values of the k-th axis; names,  *)
(* the parameter names of the constraint as positions of axes, in the      *)
(* order of its signature (<<>> without a constraint); eval, the array the *)
(* constraint returns, by row-major cell index (from 0) over the shape     *)
(* that has sizes[k] at the axes it names and 1 elsewhere. An axis of the  *)
(* grid built is kept as the indices into the values it was given.         *)

\* a constraint returns values 0..MaxWeight
MaxWeight == 2
\* and is evaluated on at most MaxConstraintCells combinations
MaxConstraintCells == 6

\* the shape of constraint_eval, line 43
EvalShape(sizes, ref) == [k \in 1..Len(sizes) |-> IF k \in ref THEN sizes[k] ELSE 1]

\* the cells of constraint_eval that are not 0, in row-major order
NonZeroCells(in) ==
    SelectSeq([c \in 1..ProdSeq(EvalShape(in.sizes, Range(in.names))) |-> c - 1],
              LAMBDA c : in.eval[c] # 0)

\* the sequences of different axes
Orders(n) == {o \in SeqsUpTo(1..n, n) : Cardinality(Range(o)) = Len(o)}

GridInputs ==
    {[sizes |-> sz, names |-> <<>>, eval |-> <<>>] :
        sz \in SeqsUpTo(1..MaxAxisLen, MaxAxes)}
    \cup
    UNION { UNION { {[sizes |-> sz, names |-> o, eval |-> e] :
                        e \in [0..(ProdSeq(EvalShape(sz, Range(o))) - 1) -> 0..MaxWeight]} :
                    o \in {x \in Orders(Len(sz)) :
                             ProdSeq(EvalShape(sz, Range(x))) <= MaxConstraintCells} } :
            sz \in SeqsUpTo(1..MaxAxisLen, MaxAxes) }

\* Grid.__init__, lines 11-76
GridCtor(in, np0d) ==
    LET n   == Len(in.sizes)
        ref == Range(in.names)
        all == [k \in 1..n |-> [t \in 1..in.sizes[k] |-> t - 1]]
    IN
    IF in.names = <<>>
    THEN [err |-> "", sizes |-> in.sizes, shape |-> in.sizes, ref |-> {},
          held |-> all, weights |-> <<>>, cidx |-> <<>>]
    ELSE
    LET es    == EvalShape(in.sizes, ref)
        cells == NonZeroCells(in)
        cnt   == Len(cells)
        kept  == SelectSeq([k \in 1..n |-> k], LAMBDA k : es[k] # 1)
        \* np.squeeze(constraint_eval).nonzero(), line 51
        nz    == IF Len(kept) = 0
                 THEN << [t \in 1..cnt |-> 0] >>
                 ELSE [j \in 1..Len(kept) |->
                        [t \in 1..cnt |-> Unravel(es, cells[t], kept[j])]]
        \* dict(zip(constraint_names, ...)): the i-th name gets the i-th array
        zipped == IF Len(in.names) < Len(nz) THEN Len(in.names) ELSE Len(nz)
        mapped(k) == \E i \in 1..zipped : in.names[i] = k
        mapper(k) == nz[CHOOSE i \in 1..zipped : in.names[i] = k]
        \* line 61, for the axes named, in the order of the grid
        bad(k)  == ~mapped(k) \/ \E t \in 1..cnt : mapper(k)[t] >= in.sizes[k]
        fails   == {k \in ref : bad(k)}
    IN
    IF Len(kept) = 0 /\ np0d = "error" THEN [err |-> "ValueError"]
    ELSE IF fails # {}
    THEN [err |-> IF mapped(Min(fails)) THEN "IndexError" ELSE "KeyError"]
    ELSE [err     |-> "",
          sizes   |-> in.sizes,
          shape   |-> [k \in 1..n |->
                        IF k \in ref THEN (IF k = Min(ref) THEN cnt ELSE 1)
                        ELSE in.sizes[k]],
          ref     |-> ref,
          held    |-> [k \in 1..n |-> IF k \in ref THEN mapper(k) ELSE all[k]],
          \* constraint_eval[mask].ravel(), lines 65-66
          weights |-> [t \in 1..cnt |-> in.eval[cells[t]]],
          \* list(constraint_eval.nonzero()), line 69
          cidx    |-> [k \in 1..n |-> [t \in 1..cnt |-> Unravel(es, cells[t], k)]]]

InitGridCtor ==
    /\ args \in [op : {"Grid"}, grid : GridInputs]
    /\ ret = NoRet
    /\ numpy0d \in {"legacy", "error"}
    /\ numpy0d = "error" =>
          /\ args.grid.names # <<>>
          /\ \A k \in Range(args.grid.names) : args.grid.sizes[k] = 1
    /\ sgrid = NoGrid
    /\ sN = 1
    /\ sI = 0
    /\ sYielded = <<>>
    /\ sStatus = "idle"
    /\ StackIdle
    /\ DesignIdle

\* Grid(...) returns a grid
GridCtorReturns ==
    /\ ret = NoRet
    /\ GridCtor(args.grid, numpy0d).err = ""
    /\ ret' = GridCtor(args.grid, numpy0d)
    /\ UNCHANGED <<args, stackVars, gridVars, designVars>>

\* Grid(...) raises
GridCtorRaises ==
    /\ ret = NoRet
    /\ GridCtor(args.grid, numpy0d).err # ""
    /\ ret' = GridCtor(args.grid, numpy0d)
    /\ UNCHANGED <<args, stackVars, gridVars, designVars>>

NextGridCtor == GridCtorReturns \/ GridCtorRaises

SpecGridCtor == InitGridCtor /\ [][NextGridCtor]_vars

\* C16: a constraint over a subset of the axes, named in any order, gives a
\* grid whose first named axis (in grid order) has as many positions as the
\* constraint has non-zero cells, whose other named axes have one, whose
\* other axes keep their size; at position j the named axes hold the values
\* of the j-th non-zero combination in row-major order, and
\* constraint_weights[j] is the constraint's value there.
C16_ConstraintCollapsesInOrder ==
    (ret # NoRet /\ args.grid.names # <<>> /\ numpy0d = "legacy") =>
        LET in    == args.grid
            ref   == Range(in.names)
            cells == NonZeroCells(in)
        IN  /\ ret.err = ""
            /\ \A k \in 1..Len(in.sizes) :
                 ret.shape[k] = IF k \notin ref THEN in.sizes[k]
                                ELSE IF k = Min(ref) THEN Len(cells) ELSE 1
            /\ \A k \in ref : \A j \in 1..Len(cells) :
                 ret.held[k][j] = Unravel(EvalShape(in.sizes, ref), cells[j], k)
            /\ \A j \in 1..Len(cells) : ret.weights[j] = in.eval[cells[j]]

\* a grid was built from a constraint that names its axes in another order
\* than the grid, and its axes hold other values than the combinations
C16_Witness ==
    /\ ret # NoRet
    /\ ret.err = ""
    /\ args.grid.names = <<2, 1>>
    /\ \E j \in 1..Len(NonZeroCells(args.grid)) :
          ret.held[1][j] # ret.cidx[1][j]

----------------------------------------------------------------------------
(* Grid.expand                                                             *)
(*                                                                         *)
(* An array is [dtype, shape, h], h[c] twice the value of the cell with    *)
(* row-major index c, so that halves are exact. An int64 array stores a    *)
(* float by truncation, a float64 array stores an integer exactly.         *)

\* no grid method is being called on a stack or by a designer
PlainGrid ==
    /\ numpy0d = "legacy"
    /\ sgrid = NoGrid
    /\ sN = 1
    /\ sI = 0
    /\ sYielded = <<>>
    /\ sStatus = "idle"
    /\ StackIdle
    /\ DesignIdle

\* the arguments of Grid(...) that give a grid
BuiltGrids == {in \in GridInputs : GridCtor(in, "legacy").err = ""}

DTypes == {"int64", "float64"}

\* the cells of an array of this shape, by row-major index
Cells(shape) == 0..(ProdSeq(shape) - 1)

\* an array with different values in all its cells: c for int64, c + 1/2
\* for float64
Arange(dtype, shape) ==
    [dtype |-> dtype, shape |-> shape,
     h |-> [c \in Cells(shape) |-> IF dtype = "int64" THEN 2 * c ELSE 2 * c + 1]]

\* the value an array of this dtype stores for twice-the-value h >= 0
Cast(dtype, h) == IF dtype = "int64" THEN 2 * (h \div 2) ELSE h

\* the cell of the full grid that the loop of lines 112-117 writes for the
\* cell ii of the collapsed grid
ExpandTarget(g, ii) ==
    LET n  == Len(g.sizes)
        i0 == Unravel(g.shape, ii, Min(g.ref))
        jj == [k \in 1..n |-> IF k \in g.ref THEN g.cidx[k][i0 + 1]
                              ELSE Unravel(g.shape, ii, k)]
    IN  CHOOSE f \in Cells(g.sizes) : \A k \in 1..n : Unravel(g.sizes, f, k) = jj[k]

\* Grid.expand, lines 98-118; a cell of the result either holds `missing`
\* or was filled with twice-the-value h
GridExpand(g, values, mdtype) ==
    IF values.shape # g.shape THEN [err |-> "ValueError"]
    ELSE IF g.ref = {} THEN [err |-> "", same |-> TRUE, dtype |-> values.dtype,
                             cell |-> [f \in Cells(g.sizes) |->
                                        [filled |-> TRUE, h |-> values.h[f]]]]
    ELSE [err |-> "", same |-> FALSE, dtype |-> mdtype,
          cell |-> [f \in Cells(g.sizes) |->
                     LET from == {ii \in Cells(g.shape) : ExpandTarget(g, ii) = f}
                     IN  IF from = {} THEN [filled |-> FALSE, h |-> 0]
                         ELSE [filled |-> TRUE,
                               h |-> Cast(mdtype,
                                          values.h[CHOOSE ii \in from :
                                                     \A x \in from : x <= ii])]]]

\* the grid a call is made on
Self == GridCtor(args.grid, "legacy")

\* the values of a call: an array of the dtype and shape given
ValuesOf(a) == Arange(a.vdtype, IF a.collapsed THEN GridCtor(a.grid, "legacy").shape
                                ELSE a.grid.sizes)

InitExpand ==
    /\ args \in [op : {"expand"}, grid : BuiltGrids, vdtype : DTypes,
                 mdtype : DTypes, collapsed : BOOLEAN]
    /\ ret = NoRet
    /\ PlainGrid

Expand ==
    /\ ret = NoRet
    /\ args.op = "expand"
    /\ GridExpand(Self, ValuesOf(args), args.mdtype).err = ""
    /\ ret' = GridExpand(Self, ValuesOf(args), args.mdtype)
    /\ UNCHANGED <<args, stackVars, gridVars, designVars>>

ExpandRaises ==
    /\ ret = NoRet
    /\ args.op = "expand"
    /\ GridExpand(Self, ValuesOf(args), args.mdtype).err # ""
    /\ ret' = GridExpand(Self, ValuesOf(args), args.mdtype)
    /\ UNCHANGED <<args, stackVars, gridVars, designVars>>

NextExpand == Expand \/ ExpandRaises

SpecExpand == InitExpand /\ [][NextExpand]_vars

\* the cell of the full grid where the cell ii of a grid's own shape lies:
\* the ii-th non-zero combination for the axes the constraint names, its own
\* index for the others
FullIndex(in, ii) ==
    LET n     == Len(in.sizes)
        ref   == Range(in.names)
        shape == [k \in 1..n |-> IF k \notin ref THEN in.sizes[k]
                                 ELSE IF k = Min(ref) THEN Len(NonZeroCells(in)) ELSE 1]
        j     == Unravel(shape, ii, Min(ref)) + 1
        at(k) == IF k \in ref
                 THEN Unravel(EvalShape(in.sizes, ref), NonZeroCells(in)[j], k)
                 ELSE Unravel(shape, ii, k)
    IN  CHOOSE f \in Cells(in.sizes) : \A k \in 1..n : Unravel(in.sizes, f, k) = at(k)

\* C17: expand(values) returns the buffer it was given on an unconstrained
\* grid; on a constrained grid it returns an array of the full shape whose
\* surviving cells hold the input value of that cell and whose other cells
\* hold `missing`.
C17_ExpandScattersExactly ==
    (ret # NoRet /\ args.op = "expand" /\ ValuesOf(args).shape = Self.shape) =>
        /\ ret.err = ""
        /\ args.grid.names = <<>> => ret.same
        /\ args.grid.names # <<>> =>
             \A f \in Cells(args.grid.sizes) :
                LET from == {ii \in Cells(Self.shape) : FullIndex(args.grid, ii) = f}
                IN  IF from = {} THEN ~ret.cell[f].filled
                    ELSE /\ ret.cell[f].filled
                         /\ \A ii \in from : ret.cell[f].h = ValuesOf(args).h[ii]

\* float values were expanded with an integer `missing` on a constrained
\* grid that has surviving cells
C17_Witness ==
    /\ ret # NoRet
    /\ args.op = "expand"
    /\ ret.err = ""
    /\ args.grid.names # <<>>
    /\ args.vdtype = "float64"
    /\ args.mdtype = "int64"
    /\ \E f \in Cells(args.grid.sizes) : ret.cell[f].filled

----------------------------------------------------------------------------
(* PermutationInvariant                                                    *)
(*                                                                         *)
(* An argument is an axis of a grid, the sequence of its values. The       *)
(* arguments are axes of one grid, so the broadcast shape has the k        *)
(* dimensions of size m in the order of the rows of M, and the weight of   *)
(* the cell with row-major index c is that of the row c of M. A weight is  *)
(* kept as the numerator and the denominator of nfact / denom.             *)

\* PermutationInvariant takes up to MaxVars axes
MaxVars == 3

RECURSIVE Factorial(_)
Factorial(n) == IF n <= 1 THEN 1 ELSE n * Factorial(n - 1)

\* the mutation of NRun: the run is never started again
NRunNeverReset(equal, nrun) == nrun + 1

\* the run length after one step of the loop of nperm, lines 240-243
NRun(equal, nrun) == IF equal THEN nrun + 1 ELSE 1

\* the loop of nperm, lines 237-245, from position i on
RECURSIVE NPermLoop(_, _, _, _)
NPermLoop(row, i, nrun, denom) ==
    IF i > Len(row) THEN [num |-> Factorial(Len(row)), den |-> denom]
    ELSE IF row[i] < row[i - 1] THEN [num |-> 0, den |-> 1]
    ELSE NPermLoop(row, i + 1, NRun(row[i] = row[i - 1], nrun),
                   denom * NRun(row[i] = row[i - 1], nrun))

\* nperm, lines 234-245
NPerm(row) == NPermLoop(row, 2, 1, 1)

\* the row c of M, lines 229-231: the indices of the c-th cell, in row-major
\* order, of nvars dimensions of this size
RowOfM(c, nvars, size) == [i \in 1..nvars |-> Unravel([k \in 1..nvars |-> size], c, i)]

\* PermutationInvariant, lines 219-247
PermutationInvariant(axes) ==
    IF \E i \in 2..Len(axes) : axes[i] # axes[1]
    THEN [err |-> "ValueError"]
    ELSE [err |-> "",
          w |-> [c \in Cells([k \in 1..Len(axes) |-> Len(axes[1])]) |->
                    NPerm(RowOfM(c, Len(axes), Len(axes[1])))]]

AxisValues == SeqsUpTo(0..1, MaxAxisLen)

\* the arguments: axes that are all the same, or all but one
PermArgs ==
    UNION { UNION { {[i \in 1..k |-> a]}
                    \cup {[i \in 1..k |-> IF i = j THEN b ELSE a] :
                             j \in 2..k, b \in AxisValues \ {a}} :
                    a \in AxisValues } :
            k \in 1..MaxVars }

InitPerm ==
    /\ args \in [op : {"PermutationInvariant"}, axes : PermArgs]
    /\ ret = NoRet
    /\ PlainGrid

PermReturns ==
    /\ ret = NoRet
    /\ args.op = "PermutationInvariant"
    /\ PermutationInvariant(args.axes).err = ""
    /\ ret' = PermutationInvariant(args.axes)
    /\ UNCHANGED <<args, stackVars, gridVars, designVars>>

PermRaises ==
    /\ ret = NoRet
    /\ args.op = "PermutationInvariant"
    /\ PermutationInvariant(args.axes).err # ""
    /\ ret' = PermutationInvariant(args.axes)
    /\ UNCHANGED <<args, stackVars, gridVars, designVars>>

NextPerm == PermReturns \/ PermRaises

SpecPerm == InitPerm /\ [][NextPerm]_vars

\* the number of positions of a tuple that hold v
CountOf(row, v) == Cardinality({i \in 1..Len(row) : row[i] = v})

RECURSIVE ProdOver(_, _)
ProdOver(f, S) ==
    IF S = {} THEN 1
    ELSE LET x == CHOOSE y \in S : TRUE IN f[x] * ProdOver(f, S \ {x})

RECURSIVE SumOver(_, _)
SumOver(f, S) ==
    IF S = {} THEN 0
    ELSE LET x == CHOOSE y \in S : TRUE IN f[x] + SumOver(f, S \ {x})

\* k! / prod(run-length!) for a tuple of indices below m
Orderings(row, m) ==
    Factorial(Len(row)) \div
        ProdOver([v \in 0..(m - 1) |-> Factorial(CountOf(row, v))], 0..(m - 1))

NonDecreasing(row) == \A i \in 2..Len(row) : row[i - 1] <= row[i]

\* C19: on k identical axes of size m, PermutationInvariant gives every
\* non-decreasing index tuple the weight k!/prod(run-length!) and every
\* other tuple the weight 0, so that the weights sum to m^k; it raises a
\* ValueError when the axes are not identical.
C19_MultinomialWeights ==
    (ret # NoRet /\ args.op = "PermutationInvariant") =>
        LET k == Len(args.axes)
            m == Len(args.axes[1])
            cells == Cells([i \in 1..k |-> m])
        IN  IF \A i \in 1..k : args.axes[i] = args.axes[1]
            THEN /\ ret.err = ""
                 /\ \A c \in cells :
                      LET row == RowOfM(c, k, m)
                      IN  ret.w[c].num = ret.w[c].den *
                             (IF NonDecreasing(row) THEN Orderings(row, m) ELSE 0)
                 /\ SumOver([c \in cells |-> ret.w[c].num \div ret.w[c].den], cells)
                      = ProdSeq([i \in 1..k |-> m])
            ELSE ret.err = "ValueError"

\* weights were returned for three identical axes of three values, among
\* them a weight 3 for a tuple with a run of two
C19_Witness ==
    /\ ret # NoRet
    /\ args.op = "PermutationInvariant"
    /\ ret.err = ""
    /\ Len(args.axes) = 3
    /\ Len(args.axes[1]) = 3
    /\ \E c \in DOMAIN ret.w : ret.w[c].num = 3 * ret.w[c].den

----------------------------------------------------------------------------
(* Grid.sum with the default axes                                          *)
(*                                                                         *)
(* The caller tabulates a function F of the axes of the full grid on the   *)
(* axes the grid holds, as the tests do (z2 = f(g2.x, g2.y, ...)), and     *)
(* sums it. F is kept by row-major cell index of the full grid.            *)

\* the function takes the values 0..MaxValue
MaxValue == 1

\* the cell of the full grid whose axis values the grid holds at its cell
\* ii: an axis the constraint names varies along the first of them, line 61
HeldCell(g, ii) ==
    LET n == Len(g.sizes)
        at(k) == IF k \in g.ref THEN g.held[k][Unravel(g.shape, ii, Min(g.ref)) + 1]
                 ELSE g.held[k][Unravel(g.shape, ii, k) + 1]
    IN  CHOOSE f \in Cells(g.sizes) : \A k \in 1..n : Unravel(g.sizes, f, k) = at(k)

\* F tabulated on the grid, or on the full grid by a caller that forgot the
\* constraint
Tabulate(a) ==
    LET g == GridCtor(a.grid, "legacy")
    IN  IF a.collapsed
        THEN [shape |-> g.shape, v |-> [ii \in Cells(g.shape) |-> a.F[HeldCell(g, ii)]]]
        ELSE [shape |-> g.sizes, v |-> a.F]

\* values * self.constraint_weights, line 147: the weights lie along the
\* first axis the constraint names
Weighted(g, values) ==
    [ii \in Cells(g.shape) |->
        values.v[ii] * g.weights[Unravel(g.shape, ii, Min(g.ref)) + 1]]

\* Grid.sum, lines 130-147 and 168, with keepdims=False, axis_names=None
\* on a grid that is not stacked; buffer is the caller's array afterwards
GridSum(g, values) ==
    IF values.shape # g.shape THEN [err |-> "ValueError", buffer |-> values]
    ELSE [err    |-> "",
          buffer |-> values,
          sum    |-> IF g.ref = {} THEN SumOver(values.v, Cells(g.shape))
                     ELSE SumOver(Weighted(g, values), Cells(g.shape))]

\* weights above 1 are tried on constraints of at most MaxWeightedCells cells
MaxWeightedCells == 4

\* the grids that values are tabulated on
TabulatedGrids ==
    {in \in BuiltGrids :
        /\ ProdSeq(in.sizes) <= MaxConstraintCells
        /\ in.names # <<>> =>
              \/ \A c \in DOMAIN in.eval : in.eval[c] <= 1
              \/ Cardinality(DOMAIN in.eval) <= MaxWeightedCells}

SumArgs ==
    UNION { {[op |-> "sum", grid |-> in, F |-> F, collapsed |-> b] :
                F \in [Cells(in.sizes) -> 0..MaxValue], b \in BOOLEAN} :
            in \in TabulatedGrids }

InitSum ==
    /\ args \in SumArgs
    /\ ret = NoRet
    /\ PlainGrid

Sum ==
    /\ ret = NoRet
    /\ args.op = "sum"
    /\ GridSum(Self, Tabulate(args)).err = ""
    /\ ret' = GridSum(Self, Tabulate(args))
    /\ UNCHANGED <<args, stackVars, gridVars, designVars>>

SumRaises ==
    /\ ret = NoRet
    /\ args.op = "sum"
    /\ GridSum(Self, Tabulate(args)).err # ""
    /\ ret' = GridSum(Self, Tabulate(args))
    /\ UNCHANGED <<args, stackVars, gridVars, designVars>>

NextSum == Sum \/ SumRaises

SpecSum == InitSum /\ [][NextSum]_vars

\* the constraint's value for the cell f of the full grid
ConstraintAt(in, f) ==
    LET es == EvalShape(in.sizes, Range(in.names))
    IN  in.eval[CHOOSE c \in Cells(es) :
                  \A k \in Range(in.names) : Unravel(es, c, k) = Unravel(in.sizes, f, k)]

\* the constraint is 0/1 and F is zero where it is 0
ZeroOutside(in, F) ==
    /\ \A c \in DOMAIN in.eval : in.eval[c] <= 1
    /\ \A f \in Cells(in.sizes) : ConstraintAt(in, f) = 0 => F[f] = 0

\* the cell of the full grid with the indices of two axes exchanged
Swapped(sizes, f, a, b) ==
    CHOOSE x \in Cells(sizes) :
        \A k \in 1..Len(sizes) :
            Unravel(sizes, x, k) = Unravel(sizes, f, IF k = a THEN b ELSE IF k = b THEN a ELSE k)

\* the constraint is PermutationInvariant of axes of one size and F is
\* symmetric under every exchange of two of them
SymmetricUnder(in, F) ==
    LET ref == Range(in.names)
        m   == in.sizes[Min(ref)]
    IN  /\ \A k \in ref : in.sizes[k] = m
        /\ LET w == PermutationInvariant([i \in 1..Len(in.names) |-> [t \in 1..m |-> t]]).w
           IN  /\ DOMAIN in.eval = DOMAIN w
               /\ \A c \in DOMAIN w : in.eval[c] * w[c].den = w[c].num
        /\ \A a \in ref : \A b \in ref : \A f \in Cells(in.sizes) :
              F[Swapped(in.sizes, f, a, b)] = F[f]

\* C18: sum(values) with the default axes on a constrained grid is the sum
\* over the surviving cells of constraint weight times value and leaves the
\* caller's array as it was; so for a function that is zero outside a 0/1
\* constraint, or symmetric under PermutationInvariant weights, the sum on
\* the constrained grid equals the sum over the full grid.
C18_ConstrainedSumIsFullSum ==
    (ret # NoRet /\ args.op = "sum" /\ args.grid.names # <<>> /\ args.collapsed) =>
        LET in == args.grid
            z  == Tabulate(args)
            w  == [ii \in Cells(z.shape) |->
                     ConstraintAt(in, FullIndex(in, ii)) * z.v[ii]]
        IN  /\ ret.err = ""
            /\ ret.sum = SumOver(w, Cells(z.shape))
            /\ ret.buffer = z
            /\ (ZeroOutside(in, args.F) \/ SymmetricUnder(in, args.F)) =>
                  ret.sum = SumOver(args.F, Cells(in.sizes))

\* a function that is not zero everywhere and is zero outside a 0/1
\* constraint naming two axes was summed on the constrained grid
C18_Witness ==
    /\ ret # NoRet
    /\ args.op = "sum"
    /\ args.collapsed
    /\ ret.err = ""
    /\ Len(args.grid.names) = 2
    /\ ZeroOutside(args.grid, args.F)
    /\ \E f \in Cells(args.grid.sizes) : args.F[f] # 0

----------------------------------------------------------------------------
(* Grid.getmax, as calculateEIG calls it on the designs with the EIG array *)
(* (design.py line 134)                                                    *)
(*                                                                         *)
(* values is kept by row-major cell index of the grid's own shape; the     *)
(* value of an axis is returned as its index in the values the axis was    *)
(* given.                                                                  *)

\* np.argmax, line 197: the first cell, in row-major order, of the largest
\* value
ArgMax(v) ==
    Min({c \in DOMAIN v : \A x \in DOMAIN v : v[x] <= v[c]})

\* Grid.getmax, lines 193-205
GridGetMax(g, values) ==
    IF values.shape # g.shape \/ DOMAIN values.v = {} THEN [err |-> "ValueError"]
    ELSE LET c == ArgMax(values.v)
             indices == [k \in 1..Len(g.sizes) |->
                           IF k \in g.ref THEN Unravel(g.shape, c, Min(g.ref))
                           ELSE Unravel(g.shape, c, k)]
         IN  [err |-> "",
              at  |-> [k \in 1..Len(g.sizes) |-> g.held[k][indices[k] + 1]]]

\* the array passed: any values on the grid's own shape, or on the full grid
ValuesArg(a) == [shape |-> IF a.collapsed THEN GridCtor(a.grid, "legacy").shape
                           ELSE a.grid.sizes,
                 v |-> a.v]

GetMaxArgs ==
    UNION { {[op |-> "getmax", grid |-> in, v |-> v, collapsed |-> TRUE] :
                v \in [Cells(GridCtor(in, "legacy").shape) -> 0..MaxValue]}
            \cup
            {[op |-> "getmax", grid |-> in, v |-> [f \in Cells(in.sizes) |-> 0],
              collapsed |-> FALSE]} :
            in \in TabulatedGrids }

InitGetMax ==
    /\ args \in GetMaxArgs
    /\ ret = NoRet
    /\ PlainGrid

GetMax ==
    /\ ret = NoRet
    /\ args.op = "getmax"
    /\ GridGetMax(Self, ValuesArg(args)).err = ""
    /\ ret' = GridGetMax(Self, ValuesArg(args))
    /\ UNCHANGED <<args, stackVars, gridVars, designVars>>

GetMaxRaises ==
    /\ ret = NoRet
    /\ args.op = "getmax"
    /\ GridGetMax(Self, ValuesArg(args)).err # ""
    /\ ret' = GridGetMax(Self, ValuesArg(args))
    /\ UNCHANGED <<args, stackVars, gridVars, designVars>>

NextGetMax == GetMax \/ GetMaxRaises

SpecGetMax == InitGetMax /\ [][NextGetMax]_vars

\* C20: getmax(values) returns for every axis its value at the first cell,
\* in row-major order, where values is largest; on a constrained grid the
\* axes the constraint names report the values of one surviving
\* combination, the one at that cell. So the design calculateEIG returns
\* has an EIG at least that of every other design.
C20_GetMaxReportsMaximalCell ==
    (/\ ret # NoRet
     /\ args.op = "getmax"
     /\ args.collapsed
     /\ DOMAIN args.v # {}) =>
        /\ ret.err = ""
        /\ \E c \in DOMAIN args.v :
              /\ \A x \in DOMAIN args.v : args.v[x] <= args.v[c]
              /\ \A x \in DOMAIN args.v : args.v[x] = args.v[c] => c <= x
              /\ \A k \in 1..Len(args.grid.sizes) :
                    ret.at[k] =
                      IF args.grid.names = <<>> THEN Unravel(args.grid.sizes, c, k)
                      ELSE Unravel(args.grid.sizes, FullIndex(args.grid, c), k)

\* the maximum was looked up on a grid constrained over two axes with
\* several surviving combinations, and it is not at the first of them
C20_Witness ==
    /\ ret # NoRet
    /\ args.op = "getmax"
    /\ args.collapsed
    /\ ret.err = ""
    /\ Len(args.grid.names) = 2
    /\ Cardinality(DOMAIN args.v) > 1
    /\ ArgMax(args.v) > 0

----------------------------------------------------------------------------
(* Claims about the order of the cells of a chunk *)

\* the k-th smallest member of a set of numbers
KthOf(S, k) == CHOOSE x \in S : Cardinality({y \in S : y < x}) = k - 1

\* C22: the i-th chunk grid subgrid(n) yields has one position per selected
\* cell along its first dimension and one along the others; at position k it
\* holds, for every axis of the parent, the parent's axis value at the cell
\* with row-major index i*n + k, which is the k-th selected cell of the
\* chunk's mask in row-major order.
C22_ChunkCellsInRowMajorOrder ==
    \A i \in 1..Len(sYielded) :
        LET s == sYielded[i] IN
        /\ s.shape = [k \in 1..NAxes(sgrid) |->
                        IF k = 1 THEN Cardinality(s.mask) ELSE 1]
        /\ \A t \in 1..Cardinality(s.mask) :
             /\ KthOf(s.mask, t) = (i - 1) * sN + (t - 1)
             /\ \A k \in 1..NAxes(sgrid) :
                  s.rows[k][t] = DesignOf(sgrid, (i - 1) * sN + (t - 1))[k]

\* a second chunk of several cells was yielded for a grid of two axes
C22_Witness ==
    /\ Len(sYielded) >= 2
    /\ NAxes(sgrid) = 2
    /\ Cardinality(sYielded[2].mask) >= 2
    /\ sStatus \in {"running", "done"}

----------------------------------------------------------------------------
(* GridStack.at                                                            *)
(*                                                                         *)
(* The members of the stack are the grids 1, 2, ... of the pool, built     *)
(* from args.members. An axis is named [m, k]: the k-th axis of member m;  *)
(* [m |-> 0, k] names no axis of any member. The value at index h of the   *)
(* values an axis was given is 2*h, and a coordinate is any of             *)
(* 0..2*(MaxAxisLen-1), so that it can lie halfway between two values.     *)

\* at() is called with at most MaxKeys keys
MaxKeys == 2

\* the grid that member m of a call's stack is
Member(a, m) == GridCtor(a.members[m], "legacy")

\* the shape of a tensor on the stack: the members' shapes, one after another
RECURSIVE Concat(_)
Concat(ss) == IF ss = <<>> THEN <<>> ELSE Head(ss) \o Concat(Tail(ss))

CombinedShape(a) == Concat([m \in 1..Len(a.members) |-> Member(a, m).shape])

\* the values self.axes[name] holds, flattened
AxisValues2(g, k) == [t \in 1..Len(g.held[k]) |-> 2 * g.held[k][t]]

AbsDiff(x, y) == IF x < y THEN y - x ELSE x - y

\* np.argmin(np.abs(value - self.axes[name])), lines 189-190: the first
\* position of the smallest distance
ArgMinDist(vals, value) ==
    Min({t \in 1..Len(vals) :
            \A x \in 1..Len(vals) : AbsDiff(value, vals[t]) <= AbsDiff(value, vals[x])}) - 1

\* an entry of the tuple at() returns: slice(None), or a location
FullSlice == [slice |-> TRUE, loc |-> 0]
Loc(n) == [slice |-> FALSE, loc |-> n]

\* GridStack.at, lines 312-326, called inside the scope; coords is a set of
\* [name, value]
GridStackAt(a) ==
    LET M       == 1..Len(a.members)
        naxes   == SumSeq([m \in M |-> Len(a.members[m].sizes)])
        known   == {c \in a.coords : c.name.m \in M}
        missing == {c.name : c \in a.coords \ known}
        empty   == {c \in known : Len(Member(a, c.name.m).held[c.name.k]) = 0}
        \* Grid.index, lines 183-191, and Grid.axis, line 128
        axisOf(c) == c.name.k + stack_offset[c.name.m]
        locOf(c)  == ArgMinDist(AxisValues2(Member(a, c.name.m), c.name.k), c.value)
    IN  IF empty # {} THEN [err |-> "ValueError:argmin"]
        ELSE IF missing # {} THEN [err |-> "ValueError", missing |-> missing]
        ELSE [err |-> "",
              idx |-> [d \in 1..naxes |->
                         IF \E c \in known : axisOf(c) = d
                         THEN Loc(locOf(CHOOSE c \in known : axisOf(c) = d))
                         ELSE FullSlice]]

\* the grids stacked: a grid with a 0/1 constraint or none, of up to
\* MaxWeightedCells cells, alone or beside a grid of one axis of two values
AtGrids ==
    {in \in BuiltGrids :
        /\ ProdSeq(in.sizes) <= MaxWeightedCells
        /\ in.names # <<>> => \A c \in DOMAIN in.eval : in.eval[c] <= 1}

PlainAxis == [sizes |-> <<2>>, names |-> <<>>, eval |-> <<>>]

AtStacks == UNION {{<<g>>, <<g, PlainAxis>>, <<PlainAxis, g>>} : g \in AtGrids}

\* the names a call can use: the axes of the members, and one more
AtNames(ms) ==
    UNION {{[m |-> m, k |-> k] : k \in 1..Len(ms[m].sizes)} : m \in 1..Len(ms)}
    \cup {[m |-> 0, k |-> 1]}

AtCoords(ms) ==
    {cs \in SUBSET {[name |-> n, value |-> v] :
                       n \in AtNames(ms), v \in 0..(2 * (MaxAxisLen - 1))} :
        /\ cs # {}
        /\ Cardinality(cs) <= MaxKeys
        /\ \A c, e \in cs : c.name = e.name => c = e
        /\ \A c \in cs : c.name.m = 0 => c.value = 0}

InitAt ==
    /\ args \in UNION {{[op |-> "at", members |-> ms, coords |-> cs] :
                          cs \in AtCoords(ms)} : ms \in AtStacks}
    /\ ret = NoRet
    /\ nax = [g \in Grids |-> IF g <= Len(args.members)
                              THEN Len(args.members[g].sizes) ELSE 0]
    /\ stack_offset = GridInitStack.offset
    /\ stack_pad = GridInitStack.pad
    /\ active = <<>>
    /\ lastOp = "none"
    /\ GridIdle
    /\ DesignIdle

\* the stack of a call: its members, in order
StackOf(a) == [m \in 1..Len(a.members) |-> m]

\* `with GridStack(*members) as stack:`
AtEnter ==
    /\ active = <<>>
    /\ ret = NoRet
    /\ Enter(StackOf(args))

\* stack.at(**coords) returns
At ==
    /\ active # <<>>
    /\ ret = NoRet
    /\ GridStackAt(args).err = ""
    /\ ret' = GridStackAt(args)
    /\ UNCHANGED <<args, stackVars, gridVars, designVars>>

\* stack.at(**coords) raises
AtRaises ==
    /\ active # <<>>
    /\ ret = NoRet
    /\ GridStackAt(args).err # ""
    /\ ret' = GridStackAt(args)
    /\ UNCHANGED <<args, stackVars, gridVars, designVars>>

NextAt == AtEnter \/ At \/ AtRaises

SpecAt == InitAt /\ [][NextAt]_vars

\* the dimension of a tensor on the stack that the axis [m, k] lies along
CombinedDim(a, name) ==
    SumSeq([m \in 1..(name.m - 1) |-> Len(a.members[m].sizes)]) + name.k

\* C23: at(**coords) returns one entry per combined dimension; for a key
\* that names an axis of a member the entry at the axis's dimension is the
\* index of the axis value nearest to the value given and lies within the
\* size of that dimension, and every other entry is a full slice. If a key
\* names no axis, it raises a ValueError listing the names without a match
\* and leaves the grids' offsets and pads as they were.
C23_AtSlicesCombinedShape ==
    (ret # NoRet /\ args.op = "at") =>
        LET known   == {c \in args.coords : c.name.m # 0}
            shape   == CombinedShape(args)
        IN  /\ stack_offset = GridStackEnter(StackOf(args), GridInitStack).offset
            /\ stack_pad = GridStackEnter(StackOf(args), GridInitStack).pad
            /\ IF known = args.coords
               THEN /\ ret.err = ""
                    /\ Len(ret.idx) = Len(shape)
                    /\ \A c \in known :
                         LET e    == ret.idx[CombinedDim(args, c.name)]
                             vals == AxisValues2(Member(args, c.name.m), c.name.k)
                         IN  /\ ~e.slice
                             /\ e.loc < shape[CombinedDim(args, c.name)]
                             /\ \A t \in 1..Len(vals) :
                                  AbsDiff(c.value, vals[e.loc + 1])
                                     <= AbsDiff(c.value, vals[t])
                    /\ \A d \in 1..Len(shape) :
                         (\A c \in known : CombinedDim(args, c.name) # d)
                            => ret.idx[d] = FullSlice
               ELSE /\ ret.err = "ValueError"
                    /\ ret.missing = {c.name : c \in args.coords \ known}

\* at() returned a location beyond the first for the second axis that a
\* member's constraint names
C23_Witness ==
    /\ ret # NoRet
    /\ args.op = "at"
    /\ ret.err = ""
    /\ \E c \in args.coords :
          /\ c.name.m # 0
          /\ c.name.k = 2
          /\ Member(args, c.name.m).ref = {1, 2}
          /\ ret.idx[CombinedDim(args, c.name)].loc > 0

----------------------------------------------------------------------------
(* The GridStack scopes of calculateEIG and calculateMarginalEIG           *)
(*                                                                         *)
(* Both loops run `with GridStack(self.features, s, self.parameters):`     *)
(* once per chunk (design.py 82-86 and 153-154), s a grid the generator    *)
(* has just built. args.stack names the grids of the pool that are         *)
(* features, s and parameters; a designer takes any grids, the same grid   *)
(* twice included. args.chunks is the number of chunks of the designs.     *)

ScopeArgs ==
    [op : {"calculateEIG", "calculateMarginalEIG"},
     stack : {<<f, ChunkGrid, p>> : f, p \in Grids \ {ChunkGrid}},
     chunks : 1..MaxChunk]

InitScopes ==
    /\ args \in ScopeArgs
    /\ ret = NoRet
    /\ nax \in [Grids -> 1..MaxAxes]
    /\ stack_offset = GridInitStack.offset
    /\ stack_pad = GridInitStack.pad
    /\ active = <<>>
    /\ lastOp = "none"
    /\ numpy0d = "legacy"
    /\ sgrid = NoGrid
    /\ sN = 1
    /\ sI = 0
    /\ sYielded = <<>>
    /\ sStatus = "running"
    /\ DesignIdle

\* the stack state with the grid s new: Grid.__init__, lines 75-76
WithNewChunk ==
    [offset |-> [stack_offset EXCEPT ![ChunkGrid] = 0],
     pad    |-> [stack_pad EXCEPT ![ChunkGrid] = 0]]

\* the generator yields the next chunk and its scope is entered
ScopeEnter ==
    /\ sStatus = "running"
    /\ active = <<>>
    /\ sI < args.chunks
    /\ LET e == GridStackEnter(args.stack, WithNewChunk) IN
       /\ e.ok
       /\ stack_offset' = e.offset
       /\ stack_pad' = e.pad
    /\ active' = Append(active, args.stack)
    /\ lastOp' = "entered"
    /\ UNCHANGED <<callVars, nax, gridVars, designVars>>

\* the generator yields the next chunk and __enter__ raises: the call ends
ScopeEnterFails ==
    /\ sStatus = "running"
    /\ active = <<>>
    /\ sI < args.chunks
    /\ LET e == GridStackEnter(args.stack, WithNewChunk) IN
       /\ ~e.ok
       /\ stack_offset' = e.offset
       /\ stack_pad' = e.pad
    /\ lastOp' = "enter_failed"
    /\ sStatus' = "raised"
    /\ ret' = [err |-> "AssertionError"]
    /\ UNCHANGED <<args, nax, active, numpy0d, sgrid, sN, sI, sYielded, designVars>>

\* the body of the with block runs to its end, or raises and the call ends;
\* __exit__ runs either way
ScopeBody(raised) ==
    /\ sStatus = "running"
    /\ active # <<>>
    /\ LET x == GridStackExit(active[Len(active)], StackState) IN
       /\ stack_offset' = x.offset
       /\ stack_pad' = x.pad
    /\ active' = SubSeq(active, 1, Len(active) - 1)
    /\ lastOp' = IF raised THEN "exit_raised" ELSE "exit_normal"
    /\ sI' = sI + 1
    /\ sStatus' = IF raised THEN "raised" ELSE sStatus
    /\ ret' = IF raised THEN [err |-> "raised in chunk"] ELSE ret
    /\ UNCHANGED <<args, nax, numpy0d, sgrid, sN, sYielded, designVars>>

\* the generator raises while it builds the next chunk: the call ends
ScopeSubgridRaises ==
    /\ sStatus = "running"
    /\ active = <<>>
    /\ sI < args.chunks
    /\ sStatus' = "raised"
    /\ ret' = [err |-> "raised in subgrid"]
    /\ UNCHANGED <<args, stackVars, numpy0d, sgrid, sN, sI, sYielded, designVars>>

\* the generator is exhausted: the call returns
ScopeReturn ==
    /\ sStatus = "running"
    /\ active = <<>>
    /\ sI >= args.chunks
    /\ sStatus' = "done"
    /\ ret' = [err |-> ""]
    /\ UNCHANGED <<args, stackVars, numpy0d, sgrid, sN, sI, sYielded, designVars>>

NextScopes ==
    \/ ScopeEnter
    \/ ScopeEnterFails
    \/ \E raised \in BOOLEAN : ScopeBody(raised)
    \/ ScopeSubgridRaises
    \/ ScopeReturn

SpecScopes == InitScopes /\ [][NextScopes]_vars

\* C24: the scope of a chunk is exited before that of the next is entered,
\* so features and parameters are in at most one active scope; and grids
\* that were in no scope when the call started have offset = pad = 0 and
\* are in no scope when it has returned or raised, at whatever chunk.
C24_ScopesNestedAndReleased ==
    /\ Len(active) <= 1
    /\ ret # NoRet =>
          /\ active = <<>>
          /\ \A g \in {args.stack[1], args.stack[3]} :
                stack_offset[g] = 0 /\ stack_pad[g] = 0

\* the call has raised at the entry of a scope
C24_Witness ==
    /\ ret # NoRet
    /\ ret.err = "AssertionError"
    /\ sI = 0
    /\ stack_offset[args.stack[3]] # 0

----------------------------------------------------------------------------
(* Arrays and numpy broadcasting                                           *)
(*                                                                         *)
(* An array is [shape, v], v[c] the value of the cell with row-major index *)
(* c (from 0).                                                             *)

\* a shape with dimensions of size 1 put in front, up to n dimensions
PadLeft(s, n) ==
    [k \in 1..n |-> IF k <= n - Len(s) THEN 1 ELSE s[k - (n - Len(s))]]

\* the shape two shapes broadcast to, or none
BroadcastShape(sa, sb) ==
    LET n == IF Len(sa) < Len(sb) THEN Len(sb) ELSE Len(sa)
        a == PadLeft(sa, n)
        b == PadLeft(sb, n)
    IN  IF \E k \in 1..n : a[k] # b[k] /\ a[k] # 1 /\ b[k] # 1
        THEN [ok |-> FALSE, shape |-> <<>>]
        ELSE [ok |-> TRUE, shape |-> [k \in 1..n |-> IF a[k] = 1 THEN b[k] ELSE a[k]]]

\* the row-major index of the cell with these indices
Ravel(shape, idx) ==
    SumSeq([k \in 1..Len(shape) |->
              idx[k] * ProdSeq(SubSeq(shape, k + 1, Len(shape)))])

\* the cell of an array of shape s that is broadcast to the cell c of the
\* shape r
BroadcastCell(s, r, c) ==
    LET p == PadLeft(s, Len(r))
    IN  Ravel(p, [k \in 1..Len(r) |-> IF p[k] = 1 THEN 0 ELSE Unravel(r, c, k)])

\* F of the value of x, x worked out once
Then(x, F(_)) == CHOOSE r \in {F(y) : y \in {x}} : TRUE

\* the function f on S, cell by cell
RECURSIVE Tabulated(_, _)
Tabulated(f, S) ==
    IF S = {} THEN <<>>
    ELSE LET x == Min(S) IN (x :> f[x]) @@ Tabulated(f, S \ {x})

\* A op B, cell by cell, for arrays whose shapes broadcast
BroadcastOp(A, B, Op(_, _)) ==
    LET r == BroadcastShape(A.shape, B.shape).shape
    IN  [shape |-> r,
         v |-> Tabulated([c \in Cells(r) |->
                            Op(A.v[BroadcastCell(A.shape, r, c)],
                               B.v[BroadcastCell(B.shape, r, c)])], Cells(r))]

\* the sum of f over a set, with this addition
RECURSIVE FoldSum(_, _, _, _)
FoldSum(f, S, Add(_, _), zero) ==
    IF S = {} THEN zero
    ELSE LET x == Min(S) IN Add(f[x], FoldSum(f, S \ {x}, Add, zero))

\* np.sum(T, axis=axes, keepdims=keepdims): axes a set of dimensions
SumAxes(T, axes, keepdims, Add(_, _), zero) ==
    LET n    == Len(T.shape)
        kept == [k \in 1..n |-> IF k \in axes THEN 1 ELSE T.shape[k]]
        out  == IF keepdims THEN kept
                ELSE SelectSeq([k \in 1..n |-> IF k \in axes THEN 0 ELSE T.shape[k]],
                               LAMBDA x : x # 0)
        into(c) == Ravel(kept, [k \in 1..n |->
                                  IF k \in axes THEN 0 ELSE Unravel(T.shape, c, k)])
    IN  [shape |-> out,
         v |-> Tabulated([r \in Cells(kept) |->
                            FoldSum(T.v, {c \in Cells(T.shape) : into(c) = r}, Add, zero)],
                         Cells(kept))]

Plus(x, y) == x + y
Times(x, y) == x * y

----------------------------------------------------------------------------
(* Grid.sum with the default axes inside a GridStack scope *)

\* self.constraint_weights, lines 63-66: the weights along the first axis
\* the constraint names, among the grid's own dimensions
ConstraintWeights(g) ==
    [shape |-> [k \in 1..Len(g.sizes) |-> IF k = Min(g.ref) THEN Len(g.weights) ELSE 1],
     v |-> [c \in 0..(Len(g.weights) - 1) |-> g.weights[c + 1]]]

\* Grid.sum, lines 130-147 and 168, with axis_names=None, for a grid whose
\* _stack_offset is offset, on values with this addition and this product
\* of a value with a weight
GridSumStackedWith(g, offset, values, keepdims, Add(_, _), Scale(_, _), zero) ==
    LET axis1 == offset
        axis2 == offset + Len(g.shape)
        upto  == IF axis2 < Len(values.shape) THEN axis2 ELSE Len(values.shape)
        axes  == (axis1 + 1)..axis2
    IN  IF SubSeq(values.shape, axis1 + 1, upto) # g.shape
        THEN [err |-> "ValueError:shape"]
        ELSE IF g.ref = {}
        THEN [err |-> "", sum |-> SumAxes(values, axes, keepdims, Add, zero)]
        ELSE IF ~BroadcastShape(values.shape, ConstraintWeights(g).shape).ok
        THEN [err |-> "ValueError:broadcast"]
        ELSE [err |-> "",
              sum |-> Then(BroadcastOp(values, ConstraintWeights(g), Scale),
                           LAMBDA w : SumAxes(w, axes, keepdims, Add, zero))]

\* Grid.sum of integer values
GridSumStacked(g, offset, values, keepdims) ==
    GridSumStackedWith(g, offset, values, keepdims, Plus, Times, 0)

\* the grids with a constraint that are summed over in a stack
WeightedGrids ==
    {in \in BuiltGrids : in.names # <<>> /\ ProdSeq(in.sizes) <= MaxWeightedCells}

\* the stacks: the constrained grid alone, first, last, or in the middle
SumStacks ==
    UNION {{[members |-> <<g>>, pos |-> 1],
            [members |-> <<g, PlainAxis>>, pos |-> 1],
            [members |-> <<PlainAxis, g>>, pos |-> 2],
            [members |-> <<PlainAxis, g, PlainAxis>>, pos |-> 2]} : g \in WeightedGrids}

\* the tensors summed: 1 everywhere, or 1 in one cell and 0 elsewhere
StackTensors(shape) ==
    {[shape |-> shape, v |-> [c \in Cells(shape) |-> 1]]}
    \cup {[shape |-> shape, v |-> [c \in Cells(shape) |-> IF c = h THEN 1 ELSE 0]] :
             h \in Cells(shape)}

InitStackSum ==
    /\ args \in UNION {{[op |-> "sum", members |-> s.members, pos |-> s.pos,
                         values |-> t] :
                           t \in StackTensors(CombinedShape(s))} : s \in SumStacks}
    /\ ret = NoRet
    /\ nax = [g \in Grids |-> IF g <= Len(args.members)
                              THEN Len(args.members[g].sizes) ELSE 0]
    /\ stack_offset = GridInitStack.offset
    /\ stack_pad = GridInitStack.pad
    /\ active = <<>>
    /\ lastOp = "none"
    /\ GridIdle
    /\ DesignIdle

\* `with GridStack(*members):`
StackSumEnter ==
    /\ active = <<>>
    /\ ret = NoRet
    /\ Enter(StackOf(args))

\* member.sum(values) inside the scope returns
StackSum ==
    /\ active # <<>>
    /\ ret = NoRet
    /\ LET r == GridSumStacked(Member(args, args.pos), stack_offset[args.pos],
                               args.values, FALSE)
       IN  /\ r.err = ""
           /\ ret' = r
    /\ UNCHANGED <<args, stackVars, gridVars, designVars>>

\* member.sum(values) inside the scope raises
StackSumRaises ==
    /\ active # <<>>
    /\ ret = NoRet
    /\ LET r == GridSumStacked(Member(args, args.pos), stack_offset[args.pos],
                               args.values, FALSE)
       IN  /\ r.err # ""
           /\ ret' = r
    /\ UNCHANGED <<args, stackVars, gridVars, designVars>>

NextStackSum == StackSumEnter \/ StackSum \/ StackSumRaises

SpecStackSum == InitStackSum /\ [][NextStackSum]_vars

\* C25: inside a scope, sum(values) with the default axes on a constrained
\* member multiplies each cell of the stacked tensor by the constraint
\* weight of the member's own cell, the weight at the cell's index along
\* the member's collapsed dimension, and then sums over the member's
\* dimensions, wherever the member is in the stack.
C25_StackedSumUsesOwnWeights ==
    (ret # NoRet /\ args.op = "sum") =>
        LET g     == Member(args, args.pos)
            first == CombinedDim(args, [m |-> args.pos, k |-> Min(g.ref)])
            dims  == {CombinedDim(args, [m |-> args.pos, k |-> k]) :
                         k \in 1..Len(g.sizes)}
            T     == args.values
            W     == [shape |-> T.shape,
                      v |-> [c \in Cells(T.shape) |->
                               T.v[c] * g.weights[Unravel(T.shape, c, first) + 1]]]
        IN  /\ ret.err = ""
            /\ ret.sum = SumAxes(W, dims, FALSE, Plus, 0)

\* a tensor was summed over a constrained member with different weights
\* that is not the last of its stack
C25_Witness ==
    /\ ret # NoRet
    /\ args.op = "sum"
    /\ ret.err = ""
    /\ args.pos < Len(args.members)
    /\ \E i, j \in 1..Len(Member(args, args.pos).weights) :
          Member(args, args.pos).weights[i] # Member(args, args.pos).weights[j]

----------------------------------------------------------------------------
(* The numbers calculateEIG computes, lines 79-134                         *)
(*                                                                         *)
(* Values are exact fractions [num, den], den > 0, in lowest terms. The    *)
(* inputs are those for which every logarithm taken is of a power of two,  *)
(* so that the logarithms are exact too; binary64 gives the same numbers   *)
(* up to rounding.                                                         *)

RECURSIVE GCD(_, _)
GCD(a, b) == IF b = 0 THEN a ELSE GCD(b, a % b)

Q(n, d) ==
    LET g == GCD(IF n < 0 THEN -n ELSE n, d)
    IN  [num |-> n \div g, den |-> d \div g]

QInt(n) == [num |-> n, den |-> 1]
QAdd(x, y) == Q(x.num * y.den + y.num * x.den, x.den * y.den)
QMul(x, y) == Q(x.num * y.num, x.den * y.den)
QScale(x, n) == Q(x.num * n, x.den)
QNeg(x) == [num |-> -x.num, den |-> x.den]
\* x / y for y > 0
QDiv(x, y) == Q(x.num * y.den, x.den * y.num)
QLeq(x, y) == x.num * y.den <= y.num * x.den

RECURSIVE IsPow2(_)
IsPow2(n) == n = 1 \/ (n > 1 /\ n % 2 = 0 /\ IsPow2(n \div 2))

RECURSIVE Log2Int(_)
Log2Int(n) == IF n <= 1 THEN 0 ELSE 1 + Log2Int(n \div 2)

\* np.log2(x, where=x > 0) leaves a cell at 0 untouched; for x = 1/2^k it
\* gives -k
ExactLog(x) == x.num = 0 \/ (x.num = 1 /\ IsPow2(x.den))
Log2Where(x) == IF x.num = 0 THEN x ELSE QInt(-Log2Int(x.den))

\* an array of the same shape, cell by cell
MapCells(T, f(_)) ==
    [shape |-> T.shape, v |-> Tabulated([c \in DOMAIN T.v |-> f(T.v[c])], DOMAIN T.v)]

\* np.divide(A, B, out=A, where=B > 0)
DivideWhere(x, y) == IF y.num > 0 THEN QDiv(x, y) ELSE x

\* the designer's grids have at most this many cells each
MaxEIGCells == 2

\* the grids of a designer: features with or without a constraint, designs
\* and parameters without
FeatureGrids ==
    {in \in BuiltGrids : Len(in.sizes) = 1 /\ in.sizes[1] <= MaxEIGCells}

EIGDesignGrids ==
    {[sizes |-> <<n>>, names |-> <<>>, eval |-> <<>>] : n \in 1..MaxEIGCells}

EIGParamGrids == {[sizes |-> <<MaxEIGCells>>, names |-> <<>>, eval |-> <<>>]}

\* the priors: fractions of MaxEIGCells, not all of them normalized
EIGPriors(shape) ==
    {[shape |-> shape, v |-> v] :
        v \in {f \in [Cells(shape) -> {Q(n, MaxEIGCells) : n \in 0..MaxEIGCells}] :
                 ProdSeq(shape) = 0
                 \/ SumSeq([c \in 1..ProdSeq(shape) |-> f[c - 1].num * (MaxEIGCells \div f[c - 1].den)])
                      \in {MaxEIGCells, MaxEIGCells - 1}}}

\* what unnorm_lfunc returns: 0.0 or 1.0 in each cell of the stack
UnnormLikelihoods(shape) ==
    {[shape |-> shape, v |-> v] : v \in [Cells(shape) -> {QInt(0), QInt(1)}]}

\* the _stack_offset of member m inside `with GridStack(*members)`
OffsetIn(a, m) ==
    GridStackEnter(StackOf(a), [offset |-> stack_offset, pad |-> stack_pad]).offset[m]

\* g.sum of fractions, g with this _stack_offset
QSum(g, offset, values, keepdims) ==
    GridSumStackedWith(g, offset, values, keepdims, QAdd, QScale, QInt(0))

\* lines 83-84: H0 = -parameters.sum(prior * log2prior), outside any scope
H0Bits(P, pr) ==
    Then(BroadcastOp(pr, MapCells(pr, Log2Where), QMul),
         LAMBDA t : QNeg(QSum(P, 0, t, FALSE).sum.v[0]))

\* lines 122-123: IG = H0 + parameters.sum(buffer), 0 where post_norm is 0
LocalIG(h0, s, post_norm) ==
    [shape |-> s.shape,
     v |-> Tabulated([c \in DOMAIN s.v |->
                        IF post_norm.v[c].num = 0 THEN QInt(0) ELSE QAdd(h0, s.v[c])],
                     DOMAIN s.v)]

\* line 131: self.EIG[mask] = gains.flatten(), mask true in all n cells
AssignAll(gains, n) ==
    IF ProdSeq(gains.shape) \notin {1, n} THEN [err |-> "ValueError:assign"]
    ELSE [err |-> "",
          EIG |-> [d \in 1..n |->
                     IF ProdSeq(gains.shape) = 1 THEN gains.v[0] ELSE gains.v[d - 1]]]

\* every logarithm np.log2 takes of these cells is exact
AllExact(T) == \A c \in DOMAIN T.v : ExactLog(T.v[c])

\* lines 92-131, the rest of the body of the with block: F and P the
\* features and the parameters, fo and po their offsets, n the number of
\* designs, L the normalized likelihood
ChunkBody(F, fo, P, po, n, L, pr, h0) ==
    \* lines 92-93
    Then(BroadcastOp(L, pr, QMul), LAMBDA joint :
    \* line 98
    Then(QSum(P, po, joint, FALSE).sum, LAMBDA marg :
    \* line 104
    Then(QSum(P, po, joint, TRUE).sum, LAMBDA post_norm :
    \* lines 105-107
    Then(BroadcastOp(joint, post_norm, DivideWhere), LAMBDA post :
    \* lines 114-119
    Then(BroadcastOp(MapCells(post, Log2Where), L, QMul), LAMBDA t1 :
    Then(BroadcastOp(t1, pr, QMul), LAMBDA t2 :
    Then(BroadcastOp(t2, post_norm, DivideWhere), LAMBDA terms :
    \* lines 122-123
    Then(LocalIG(h0, QSum(P, po, terms, FALSE).sum,
                 [shape |-> marg.shape, v |-> post_norm.v]), LAMBDA ig :
    \* line 131
    Then(BroadcastOp(marg, ig, QMul), LAMBDA mi :
    Then(QSum(F, fo, mi, FALSE), LAMBDA gains :
        IF gains.err # "" THEN [err |-> gains.err, exact |-> AllExact(post)]
        ELSE IF AssignAll(gains.sum, n).err # ""
        THEN [err |-> "ValueError:assign", exact |-> AllExact(post)]
        ELSE [err |-> "", exact |-> AllExact(post), H0 |-> h0,
              EIG |-> AssignAll(gains.sum, n).EIG]))))))))))

\* likelihood_func, lines 136-139 with grid.py 172-173, the assertion of
\* line 88, and the rest of the body
ChunkFrom(F, fo, P, po, n, U, pr, h0) ==
    Then(QSum(F, fo, U, TRUE), LAMBDA norm :
        IF norm.err # "" THEN [err |-> norm.err, exact |-> TRUE]
        ELSE IF \E c \in DOMAIN norm.sum.v : norm.sum.v[c].num = 0
        THEN [err |-> "AssertionError:likelihood", exact |-> TRUE]
        ELSE Then(BroadcastOp(U, norm.sum, QDiv), LAMBDA L :
             Then(QSum(F, fo, L, FALSE).sum, LAMBDA ones :
                 IF \E c \in DOMAIN ones.v : ones.v[c] # QInt(1)
                 THEN [err |-> "AssertionError:likelihood", exact |-> TRUE]
                 ELSE ChunkBody(F, fo, P, po, n, L, pr, h0))))

\* calculateEIG with mem=None: one chunk, all of the designs. exact: every
\* logarithm taken was exact.
CalculateEIGOf(a) ==
    Then(Member(a, 1), LAMBDA F :
    Then(Member(a, 3), LAMBDA P :
        IF ~AllExact(a.prior) THEN [err |-> "", exact |-> FALSE]
        \* lines 80-81
        ELSE IF QSum(P, 0, a.prior, FALSE).sum.v[0] # QInt(1)
        THEN [err |-> "ValueError:prior", exact |-> TRUE]
        ELSE ChunkFrom(F, OffsetIn(a, 1), P, OffsetIn(a, 3),
                       ProdSeq(Member(a, 2).shape), a.U, a.prior,
                       H0Bits(P, a.prior))))

\* what the caller sees
Outcome(r) ==
    IF r.err = "" THEN [err |-> "", H0 |-> r.H0, EIG |-> r.EIG] ELSE [err |-> r.err]

\* every logarithm calculateEIG takes is exact
LogsExact(a) == CalculateEIGOf(a).exact

EIGArgs ==
    UNION {UNION {UNION {
        {[op |-> "calculateEIG", members |-> <<f, d, p>>, U |-> u, prior |-> pr] :
            u \in UnnormLikelihoods(CombinedShape([members |-> <<f, d, p>>])),
            pr \in EIGPriors(GridCtor(p, "legacy").shape)} :
        p \in EIGParamGrids} : d \in EIGDesignGrids} : f \in FeatureGrids}

InitEIG ==
    /\ nax = [g \in Grids |-> 1]
    /\ stack_offset = GridInitStack.offset
    /\ stack_pad = GridInitStack.pad
    /\ active = <<>>
    /\ lastOp = "none"
    /\ args \in {a \in EIGArgs : LogsExact(a)}
    /\ ret = NoRet
    /\ GridIdle
    /\ DesignIdle

\* calculateEIG returns; every scope it entered is left again
CalculateEIGReturns ==
    /\ ret = NoRet
    /\ CalculateEIGOf(args).err = ""
    /\ ret' = Outcome(CalculateEIGOf(args))
    /\ UNCHANGED <<args, stackVars, gridVars, designVars>>

\* calculateEIG raises
CalculateEIGRaises ==
    /\ ret = NoRet
    /\ CalculateEIGOf(args).err # ""
    /\ ret' = Outcome(CalculateEIGOf(args))
    /\ UNCHANGED <<args, stackVars, gridVars, designVars>>

NextEIG == CalculateEIGReturns \/ CalculateEIGRaises

SpecEIG == InitEIG /\ [][NextEIG]_vars

\* C21: after a successful calculateEIG with a normalized, non-negative
\* prior and a non-negative likelihood, the prior entropy H0 is not
\* negative and the expected information gain of every design is between 0
\* and H0.
C21_EIGBetweenZeroAndH0 ==
    (ret # NoRet /\ args.op = "calculateEIG" /\ ret.err = "") =>
        /\ QLeq(QInt(0), ret.H0)
        /\ \A d \in DOMAIN ret.EIG :
              QLeq(QInt(0), ret.EIG[d]) /\ QLeq(ret.EIG[d], ret.H0)

\* a calculateEIG has returned, for a prior with entropy, a gain above 0 in
\* one design and a gain of 0 in another
C21_Witness ==
    /\ ret # NoRet
    /\ args.op = "calculateEIG"
    /\ ret.err = ""
    /\ ret.H0.num > 0
    /\ \E d, e \in DOMAIN ret.EIG : ret.EIG[d].num > 0 /\ ret.EIG[e].num = 0

====
